---- MODULE Spec2Model ----
(***************************************************************************)
(* The feedback API of main12-next-app: the route handlers of /api/support *)
(* and /api/support/{id} over the Postgres table "feedback".               *)
(*                                                                         *)
(*   schema    the type, the table, its columns and its indexes            *)
(*   feedback  the rows of the table (a set: SQL keeps no row order)       *)
(*   now       the database clock (CURRENT_TIMESTAMP)                      *)
(*   req       the request being served, NoRequest between requests        *)
(*   resp      the response the handler made for it                        *)
(*   before    the rows of the table when the request arrived              *)
(*   submitted the id and the body of each record a POST created that no   *)
(*             PATCH or DELETE has named since                             *)
(*   initialized  whether a POST /support/init has succeeded               *)
(*                                                                         *)
(* Requests are served one after another: a handler runs, its response is  *)
(* returned, and the next request arrives.                                 *)
(***************************************************************************)
EXTENDS Integers, Sequences, FiniteSets, TLC

VARIABLES schema, feedback, now, req, resp, before, submitted, initialized

vars == <<schema, feedback, now, req, resp, before, submitted, initialized>>

(***************************************************************************)
(* Bounds of the model.                                                    *)
(***************************************************************************)
\* The clock runs from 0 to MaxTime.
MaxTime == 1

\* The id sequence of the older table gives the ids 1 to MaxSerial.
MaxSerial == 2

(***************************************************************************)
(* JavaScript values.  A field a JSON body does not have, and a query      *)
(* parameter a URL does not have (searchParams.get gives null), is         *)
(* UNDEFINED; both are falsy, as the empty string is.                      *)
(***************************************************************************)
UNDEFINED == "<undefined>"

Truthy(v) == v # UNDEFINED /\ v # ""

\* a || b
OrElse(a, b) == IF Truthy(a) THEN a ELSE b

\* The code units of the strings the requests of this model carry as numbers.
Chars(s) ==
  CASE s = ""    -> <<>>
    [] s = "0"   -> <<"0">>
    [] s = "1"   -> <<"1">>
    [] s = "2"   -> <<"2">>
    [] s = "3"   -> <<"3">>
    [] s = "50"  -> <<"5", "0">>
    [] s = "-1"  -> <<"-", "1">>
    [] s = "1x"  -> <<"1", "x">>
    [] s = "abc" -> <<"a", "b", "c">>

Digit(c) ==
  CASE c = "0" -> 0 [] c = "1" -> 1 [] c = "2" -> 2 [] c = "3" -> 3 [] c = "4" -> 4
    [] c = "5" -> 5 [] c = "6" -> 6 [] c = "7" -> 7 [] c = "8" -> 8 [] c = "9" -> 9
    [] OTHER -> -1

\* The value of the longest prefix of digits of cs from position i on, given
\* the value acc of the digits read so far.
RECURSIVE DigitsFrom(_, _, _)
DigitsFrom(cs, i, acc) ==
  IF i > Len(cs) \/ Digit(cs[i]) < 0 THEN acc
  ELSE DigitsFrom(cs, i + 1, 10 * acc + Digit(cs[i]))

\* Number.parseInt(s): an optional sign, then the longest prefix of decimal
\* digits; NaN when there is no digit.
ParseInt(s) ==
  LET cs   == Chars(s)
      neg  == Len(cs) > 0 /\ cs[1] = "-"
      from == IF Len(cs) > 0 /\ cs[1] \in {"-", "+"} THEN 2 ELSE 1
      none == from > Len(cs) \/ Digit(cs[from]) < 0
      n    == DigitsFrom(cs, from, 0)
  IN  IF none THEN [nan |-> TRUE, val |-> 0]
      ELSE [nan |-> FALSE, val |-> IF neg THEN 0 - n ELSE n]

(***************************************************************************)
(* GET /support: the listing query.  A query is its WHERE conditions in    *)
(* the order they are joined, each with the number of its placeholder, the *)
(* placeholders of LIMIT and OFFSET, and the values bound to $1, $2, ...   *)
(***************************************************************************)
EmptyBuilder == [conditions |-> <<>>, values |-> <<>>, paramIndex |-> 1]

\* PushCondition without its paramIndex++.
PushConditionNoIncrement(b, v, col, op, bound) ==
  IF Truthy(v)
  THEN [conditions |-> Append(b.conditions, [col |-> col, op |-> op, ph |-> b.paramIndex]),
        values     |-> Append(b.values, bound),
        paramIndex |-> b.paramIndex]
  ELSE b

\* if (v) { conditions.push(`col op $${paramIndex}`); values.push(bound); paramIndex++ }
PushCondition(b, v, col, op, bound) ==
  IF Truthy(v)
  THEN [conditions |-> Append(b.conditions, [col |-> col, op |-> op, ph |-> b.paramIndex]),
        values     |-> Append(b.values, bound),
        paramIndex |-> b.paramIndex + 1]
  ELSE b

\* ORDER BY created_at DESC LIMIT $${paramIndex} OFFSET $${paramIndex + 1}
FinishListQuery(b, limit, offset) ==
  [where    |-> b.conditions,
   limitPh  |-> b.paramIndex,
   offsetPh |-> b.paramIndex + 1,
   values   |-> b.values \o <<limit, offset>>]

\* `%${titleSearch}%`
LikePattern(titleSearch) == "%" \o titleSearch \o "%"

BuildListQuery(app, type, status, titleSearch, limit, offset) ==
  LET b1 == PushCondition(EmptyBuilder, app, "app", "=", app)
      b2 == PushCondition(b1, type, "type", "=", type)
      b3 == PushCondition(b2, status, "status", "=", status)
      b4 == PushCondition(b3, titleSearch, "title", "ILIKE", LikePattern(titleSearch))
  IN  FinishListQuery(b4, limit, offset)

\* The older handler of the same route: it has no title filter.
BuildListQueryLegacy(app, type, status, limit, offset) ==
  LET b1 == PushCondition(EmptyBuilder, app, "app", "=", app)
      b2 == PushCondition(b1, type, "type", "=", type)
      b3 == PushCondition(b2, status, "status", "=", status)
  IN  FinishListQuery(b3, limit, offset)

\* The placeholders of a listing query in the order they stand in its text.
Placeholders(q) ==
  [i \in 1..Len(q.where) |-> q.where[i].ph] \o <<q.limitPh, q.offsetPh>>

(***************************************************************************)
(* The schema of POST /support/init.                                       *)
(***************************************************************************)
\* The enum with the label "waiting", which the documentation of PATCH lists.
FeedbackStatusEnumAsDocumented ==
  {"pending", "new", "inReview", "triaged", "inProgress", "planned", "blocked",
   "needsInfo", "resolved", "completed", "verified", "deployed", "closed",
   "duplicate", "wontFix", "invalid", "migrated", "archived", "reopened", "ok",
   "waiting"}

\* CREATE TYPE feedback_status AS ENUM (...)
FeedbackStatusEnum ==
  {"pending", "new", "inReview", "triaged", "inProgress", "planned", "blocked",
   "needsInfo", "resolved", "completed", "verified", "deployed", "closed",
   "duplicate", "wontFix", "invalid", "migrated", "archived", "reopened", "ok"}

\* notes JSONB DEFAULT '[]'::JSONB
\* The schema: whether the type feedback_status exists; whether the table
\* exists and what its id column is ("serial": id SERIAL and status
\* VARCHAR(25), the table of the older initialisation; "varchar": id
\* VARCHAR(50) and status feedback_status); whether the table has the column
\* title; the columns that have an index; the next value of the id sequence.
NoSchema ==
  [type |-> FALSE, table |-> "none", title |-> FALSE, indexes |-> {}, nextId |-> 1]

\* CREATE TYPE feedback_status; CREATE TABLE feedback (id VARCHAR(50) PRIMARY KEY,
\* ..., title VARCHAR(255) NOT NULL, ...); CREATE INDEX on app, type, status, title
NativeSchema ==
  [type |-> TRUE, table |-> "varchar", title |-> TRUE,
   indexes |-> {"app", "type", "status", "title"}, nextId |-> 1]

\* The value of a column that holds none.
NULL == "<null>"

DefaultNotes == <<>>

\* status feedback_status NOT NULL DEFAULT 'pending'
DefaultStatus == "pending"

(***************************************************************************)
(* JSON.  An object is a record over a fixed set of keys, a key it does    *)
(* not have holding the absent value of its kind; its JSON text is the     *)
(* list of the members it has, in key order.                               *)
(***************************************************************************)
\* A structured member (files, metadata, timing) a body does not have.
Nothing == [some |-> FALSE]

Some(v) == [some |-> TRUE, v |-> v]

StringKeys ==
  <<"app_name", "type", "title", "description", "status", "ticketNumber",
    "client_timestamp", "console_logs">>

StructKeys == <<"files", "metadata", "timing">>

DataKeys == StringKeys \o StructKeys

IsStringKey(k) == \E i \in 1..Len(StringKeys) : StringKeys[i] = k

Absent(k) == IF IsStringKey(k) THEN UNDEFINED ELSE Nothing

Has(obj, k) == obj[k] # Absent(k)

\* JSON.stringify(obj): the members whose value is not undefined.
RECURSIVE StringifyFrom(_, _)
StringifyFrom(obj, i) ==
  IF i > Len(DataKeys) THEN <<>>
  ELSE LET k == DataKeys[i]
       IN  (IF Has(obj, k) THEN <<[key |-> k, value |-> obj[k]]>> ELSE <<>>)
           \o StringifyFrom(obj, i + 1)

JsonStringify(obj) == StringifyFrom(obj, 1)

\* JSON.parse(text), and what the driver makes of a JSONB column.
JsonParse(text) ==
  [k \in {DataKeys[i] : i \in 1..Len(DataKeys)} |->
     IF \E i \in 1..Len(text) : text[i].key = k
     THEN text[CHOOSE i \in 1..Len(text) : text[i].key = k].value
     ELSE Absent(k)]

(***************************************************************************)
(* The store: one statement at a time (lib/db.ts executeQuery), each       *)
(* either raising or returning its rows and the table it leaves.           *)
(***************************************************************************)
\* A statement that raised: the error sql.query threw, which executeQuery logs
\* and throws again.
Failed(message, table) ==
  [raised |-> TRUE, rows |-> <<>>, table |-> table, message |-> message]

\* The message of a failure of the store that is none of the statement's doing.
FaultMessage == "Connection terminated unexpectedly"

Raised(table) == Failed(FaultMessage, table)

Returned(rows, table) == [raised |-> FALSE, rows |-> rows, table |-> table]

\* The validation query answering yes to every label.
DbStatusExistsAlways(label) == TRUE

\* SELECT EXISTS (SELECT 1 FROM pg_enum WHERE enumtypid = 'feedback_status'::regtype AND enumlabel = $1)
DbStatusExists(label) == label \in FeedbackStatusEnum

\* A lookup that raises when no row has the id.
DbSelectByIdOrThrow(table, id) ==
  LET hit == {r \in table : r.id = id}
  IN  IF hit = {} THEN Failed("no data found", table)
      ELSE [raised |-> FALSE, rows |-> <<CHOOSE r \in hit : TRUE>>, table |-> table]

\* A lookup whose query lost its WHERE clause.
DbSelectByIdNoWhere(table, id) ==
  IF table = {} THEN [raised |-> FALSE, rows |-> <<>>, table |-> table]
  ELSE [raised |-> FALSE, rows |-> <<CHOOSE r \in table : TRUE>>, table |-> table]

\* SELECT ... FROM feedback WHERE id = $1
DbSelectById(table, id) ==
  LET hit == {r \in table : r.id = id}
  IN  IF hit = {} THEN Returned(<<>>, table)
      ELSE Returned(<<CHOOSE r \in hit : TRUE>>, table)

\* A table whose id column has no PRIMARY KEY constraint.
NoPrimaryKey(table, id) == TRUE

\* id VARCHAR(50) PRIMARY KEY
PrimaryKeyFree(table, id) == \A r \in table : r.id # id

\* An INSERT that, finding the id taken, puts its row in the place of the
\* one that has it before it raises.
DbInsertReplacing(table, v, t) ==
  LET row == [id |-> v[1], app |-> v[2], type |-> v[3], title |-> v[4],
              status |-> v[5], data |-> v[6], notes |-> DefaultNotes,
              created_at |-> t, modified_at |-> t]
  IN  IF ~PrimaryKeyFree(table, v[1])
      THEN Failed("duplicate key value violates unique constraint \"feedback_pkey\"",
                  {r \in table : r.id # v[1]} \cup {row})
      ELSE IF v[5] \notin FeedbackStatusEnum
      THEN Failed("invalid input value for enum feedback_status", table)
      ELSE Returned(<<row>>, table \cup {row})

\* INSERT INTO feedback (id, app, type, title, status, data) VALUES ($1..$6)
\* RETURNING id, created_at
DbInsert(table, v, t) ==
  IF ~PrimaryKeyFree(table, v[1])
  THEN Failed("duplicate key value violates unique constraint \"feedback_pkey\"", table)
  ELSE IF v[5] \notin FeedbackStatusEnum
  THEN Failed("invalid input value for enum feedback_status", table)
  ELSE LET row == [id |-> v[1], app |-> v[2], type |-> v[3], title |-> v[4],
                   status |-> v[5], data |-> v[6], notes |-> DefaultNotes,
                   created_at |-> t, modified_at |-> t]
       IN  Returned(<<row>>, table \cup {row})

\* A deletion that keeps the row and marks it archived.
DbDeleteMarking(table, id) ==
  Returned(<<>>, {IF r.id = id THEN [r EXCEPT !.status = "archived"] ELSE r : r \in table})

\* DELETE FROM feedback WHERE id = $1
DbDelete(table, id) == Returned(<<>>, {r \in table : r.id # id})

(***************************************************************************)
(* PATCH /support/{id}: the update query.  Its SET assignments after       *)
(* "modified_at = CURRENT_TIMESTAMP", each with its placeholder, the       *)
(* placeholder of the WHERE clause, and the values.                        *)
(***************************************************************************)
EmptyUpdate == [sets |-> <<>>, values |-> <<>>, paramIndex |-> 1]

\* An assignment appended without moving on to the next placeholder.
PushSetNoIncrement(b, present, col, bound) ==
  IF present
  THEN [sets       |-> Append(b.sets, [col |-> col, ph |-> b.paramIndex]),
        values     |-> Append(b.values, bound),
        paramIndex |-> b.paramIndex]
  ELSE b

\* if (v) { updateQuery += `, col = $${paramIndex}`; values.push(bound); paramIndex++ }
PushSet(b, present, col, bound) ==
  IF present
  THEN [sets       |-> Append(b.sets, [col |-> col, ph |-> b.paramIndex]),
        values     |-> Append(b.values, bound),
        paramIndex |-> b.paramIndex + 1]
  ELSE b

\* JSON.stringify of an array: the texts of its elements.
JsonStringifyArray(a) == [i \in 1..Len(a) |-> a[i]]

BuildUpdateQuery(id, body) ==
  LET b1 == PushSet(EmptyUpdate, Truthy(body.status), "status", body.status)
      b2 == PushSet(b1, Truthy(body.type), "type", body.type)
      b3 == PushSet(b2, Truthy(body.title), "title", body.title)
      b4 == PushSet(b3, body.data.some, "data",
                    IF body.data.some THEN JsonStringify(body.data.v) ELSE <<>>)
      b5 == PushSet(b4, body.notes.some, "notes",
                    IF body.notes.some THEN JsonStringifyArray(body.notes.v) ELSE <<>>)
  IN  [sets    |-> b5.sets,
       wherePh |-> b5.paramIndex,
       values  |-> Append(b5.values, id)]

\* An UPDATE that clears the columns it has no assignment for.
AssignedOrCleared(q, col, old) ==
  IF \E i \in 1..Len(q.sets) : q.sets[i].col = col
  THEN q.values[q.sets[CHOOSE i \in 1..Len(q.sets) : q.sets[i].col = col].ph]
  ELSE NULL

\* The value an UPDATE gives column col of a row that holds old.
Assigned(q, col, old) ==
  IF \E i \in 1..Len(q.sets) : q.sets[i].col = col
  THEN q.values[q.sets[CHOOSE i \in 1..Len(q.sets) : q.sets[i].col = col].ph]
  ELSE old

\* An UPDATE that stamps created_at as it stamps modified_at.
DbUpdateStampingBoth(table, q, t) ==
  LET hit == {r \in table : r.id = q.values[q.wherePh]}
      new(r) == [id |-> r.id, app |-> r.app,
                 type        |-> Assigned(q, "type", r.type),
                 title       |-> Assigned(q, "title", r.title),
                 status      |-> Assigned(q, "status", r.status),
                 data        |-> Assigned(q, "data", r.data),
                 notes       |-> Assigned(q, "notes", r.notes),
                 created_at  |-> t,
                 modified_at |-> t]
  IN  IF \E r \in hit : new(r).status \notin FeedbackStatusEnum
      THEN Failed("invalid input value for enum feedback_status", table)
      ELSE IF hit = {} THEN Returned(<<>>, table)
      ELSE Returned(<<new(CHOOSE r \in hit : TRUE)>>,
                    (table \ hit) \cup {new(r) : r \in hit})

\* An UPDATE that only applies to a row no UPDATE has touched yet.
DbUpdateIfUntouched(table, q, t) ==
  LET hit == {r \in table : r.id = q.values[q.wherePh] /\ r.modified_at = r.created_at
                             /\ r.modified_at < t}
      new(r) == [id |-> r.id, app |-> r.app,
                 type        |-> Assigned(q, "type", r.type),
                 title       |-> Assigned(q, "title", r.title),
                 status      |-> Assigned(q, "status", r.status),
                 data        |-> Assigned(q, "data", r.data),
                 notes       |-> Assigned(q, "notes", r.notes),
                 created_at  |-> r.created_at,
                 modified_at |-> t]
  IN  IF hit = {} THEN Returned(<<>>, table)
      ELSE Returned(<<new(CHOOSE r \in hit : TRUE)>>,
                    (table \ hit) \cup {new(r) : r \in hit})

\* UPDATE feedback SET modified_at = CURRENT_TIMESTAMP, ... WHERE id = $n
\* RETURNING id, title, modified_at, status
DbUpdate(table, q, t) ==
  LET hit == {r \in table : r.id = q.values[q.wherePh]}
      new(r) == [id |-> r.id, app |-> r.app,
                 type        |-> Assigned(q, "type", r.type),
                 title       |-> Assigned(q, "title", r.title),
                 status      |-> Assigned(q, "status", r.status),
                 data        |-> Assigned(q, "data", r.data),
                 notes       |-> Assigned(q, "notes", r.notes),
                 created_at  |-> r.created_at,
                 modified_at |-> t]
  IN  IF \E r \in hit : new(r).status \notin FeedbackStatusEnum
      THEN Failed("invalid input value for enum feedback_status", table)
      ELSE IF hit = {} THEN Returned(<<>>, table)
      ELSE Returned(<<new(CHOOSE r \in hit : TRUE)>>,
                    (table \ hit) \cup {new(r) : r \in hit})

(***************************************************************************)
(* The listing query in the store.                                         *)
(***************************************************************************)
\* The code units of the titles and title patterns of this model.
TextChars(s) ==
  CASE s = "t"     -> <<"t">>
    [] s = "T"     -> <<"T">>
    [] s = "ab"    -> <<"a", "b">>
    [] s = "b"     -> <<"b">>
    [] s = "_"     -> <<"_">>
    [] s = "%t%"   -> <<"%", "t", "%">>
    [] s = "%T%"   -> <<"%", "T", "%">>
    [] s = "%b%"   -> <<"%", "b", "%">>
    [] s = "%_%"   -> <<"%", "_", "%">>
    [] s = "Untitled Request" ->
         <<"U", "n", "t", "i", "t", "l", "e", "d", " ", "R", "e", "q", "u", "e", "s", "t">>

Lower(c) ==
  CASE c = "T" -> "t" [] c = "U" -> "u" [] c = "R" -> "r" [] c = "A" -> "a"
    [] c = "B" -> "b" [] OTHER -> c

\* Whether s from position j on matches the LIKE pattern p from position i on:
\* % stands for any run of characters, _ for any one character.
RECURSIVE LikeFrom(_, _, _, _)
LikeFrom(p, i, s, j) ==
  IF i > Len(p) THEN j > Len(s)
  ELSE IF p[i] = "%" THEN \E k \in j..(Len(s) + 1) : LikeFrom(p, i + 1, s, k)
  ELSE IF j > Len(s) THEN FALSE
  ELSE (p[i] = "_" \/ Lower(p[i]) = Lower(s[j])) /\ LikeFrom(p, i + 1, s, j + 1)

\* text ILIKE pattern
ILike(text, pattern) == LikeFrom(TextChars(pattern), 1, TextChars(text), 1)

RowMatches(r, q) ==
  \A i \in 1..Len(q.where) :
    LET c == q.where[i]
        v == q.values[c.ph]
    IN  IF c.op = "ILIKE" THEN ILike(r[c.col], v) ELSE r[c.col] = v

\* The orders ORDER BY created_at DESC may return rows in: rows of the same
\* created_at come in any order.
Orderings(rows) ==
  {o \in [1..Cardinality(rows) -> rows] :
     /\ \A i, j \in 1..Cardinality(rows) : i # j => o[i] # o[j]
     /\ \A i, j \in 1..Cardinality(rows) : i < j => o[i].created_at >= o[j].created_at}

Min(a, b) == IF a < b THEN a ELSE b

\* A listing query whose LIMIT clause was lost.
DbSelectListNoLimit(table, q, o) ==
  LET limit  == q.values[q.limitPh]
      offset == q.values[q.offsetPh]
      match  == SelectSeq(o, LAMBDA r : RowMatches(r, q))
  IN  IF limit.nan \/ offset.nan
      THEN Failed("invalid input syntax for type bigint: \"NaN\"", table)
      ELSE IF limit.val < 0 THEN Failed("LIMIT must not be negative", table)
      ELSE IF offset.val < 0 THEN Failed("OFFSET must not be negative", table)
      ELSE Returned(SubSeq(match, offset.val + 1, Len(match)), table)

\* SELECT ... FROM feedback [WHERE ...] ORDER BY created_at DESC LIMIT $n OFFSET $n+1,
\* o being the order the store puts the rows of the table in.  A LIMIT or an
\* OFFSET that is NaN or negative is an error.
DbSelectList(table, q, o) ==
  LET limit  == q.values[q.limitPh]
      offset == q.values[q.offsetPh]
      match  == SelectSeq(o, LAMBDA r : RowMatches(r, q))
  IN  IF limit.nan \/ offset.nan
      THEN Failed("invalid input syntax for type bigint: \"NaN\"", table)
      ELSE IF limit.val < 0 THEN Failed("LIMIT must not be negative", table)
      ELSE IF offset.val < 0 THEN Failed("OFFSET must not be negative", table)
      ELSE Returned(SubSeq(match, offset.val + 1, Min(Len(match), offset.val + limit.val)),
                    table)

(***************************************************************************)
(* Responses.  A handler run gives the response and the table it leaves;   *)
(* stmts lists the statements it sent to the store, in order, and puts     *)
(* counts its uploads to the blob store.                                   *)
(***************************************************************************)
Outcome(code, body, stmts, puts, table) ==
  [resp  |-> [code |-> code, body |-> body, stmts |-> stmts, puts |-> puts,
              cors |-> "*"],
   table |-> table]

\* A catch block that answers without the message of the error, as the catch
\* blocks of the older handlers do.
ServerErrorWithoutDetails(what, err, stmts, puts, table) ==
  Outcome(500, [error |-> what, details |-> UNDEFINED], stmts, puts, table)

\* A catch block that answers with a message of its own in place of the error's.
ServerErrorOpaque(what, err, stmts, puts, table) ==
  Outcome(500, [error |-> what, details |-> "Internal server error"], stmts, puts, table)

\* details: error instanceof Error ? error.message : String(error)
ServerError(what, err, stmts, puts, table) ==
  Outcome(500, [error |-> what, details |-> err.message], stmts, puts, table)

NotFound(stmts, table) ==
  Outcome(404, [error |-> "Feedback not found"], stmts, 0, table)

(***************************************************************************)
(* POST /support                                                           *)
(***************************************************************************)
\* One prefix for every type.
TicketPrefixOfBugs(type) == "BUG-"

\* const prefix = type === "bug" ? "BUG-" : type === "suggestion" ? "SUG-" : "SUP-"
TicketPrefix(type) ==
  IF type = "bug" THEN "BUG-" ELSE IF type = "suggestion" THEN "SUG-" ELSE "SUP-"

\* new Date().toISOString()
IsoTime(t) == "T+" \o ToString(t)

\* generateTicketNumber(type): stamp is the last four base-36 digits of
\* Date.now(), rnd the characters Math.random() gave.
GenerateTicketNumber(type, stamp, rnd) == TicketPrefix(type) \o stamp \o rnd

\* Buffer.from(data, "base64").length, for data without padding.
BufferLength(data) == (Len(data) * 3) \div 4

\* The size of an entry that has none.
NoSize == 0 - 1

\* One turn of the upload loop: the entry pushed for file, put telling whether
\* the blob store took it.
UploadEntry(file, put) ==
  IF ~Truthy(file.name) \/ ~Truthy(file.data)
  THEN [name |-> OrElse(file.name, "unknown"), url |-> UNDEFINED, size |-> NoSize,
        type |-> UNDEFINED, error |-> "Invalid file format. Required: name and data"]
  ELSE IF put
  THEN [name |-> file.name, url |-> "blob://" \o file.name,
        size |-> BufferLength(file.data),
        type |-> OrElse(file.type, "application/octet-stream"), error |-> UNDEFINED]
  ELSE [name |-> OrElse(file.name, "unknown"), url |-> UNDEFINED, size |-> NoSize,
        type |-> UNDEFINED, error |-> "Failed to upload file"]

\* An upload loop that the first failure ends.
UploadFilesStopping(files, puts) ==
  LET all  == [i \in 1..Len(files) |-> UploadEntry(files[i], puts[i])]
      bad  == {i \in 1..Len(files) : all[i].error # UNDEFINED}
      last == IF bad = {} THEN Len(files) ELSE CHOOSE i \in bad : \A j \in bad : i <= j
  IN  SubSeq(all, 1, last)

\* for (const file of files) { ... }
UploadFiles(files, puts) == [i \in 1..Len(files) |-> UploadEntry(files[i], puts[i])]

\* The calls of put() the loop makes: one per file that has a name and data.
PutCalls(files) ==
  Cardinality({i \in 1..Len(files) : Truthy(files[i].name) /\ Truthy(files[i].data)})

NoMetadata == [source |-> UNDEFINED, userAgent |-> UNDEFINED, timestamp |-> UNDEFINED]

\* dataObject.metadata = { ...(dataObject.metadata || {}), userAgent, timestamp }
MergeMetadata(metadata, ua, t) ==
  LET m == IF metadata.some THEN metadata.v ELSE NoMetadata
  IN  Some([source |-> m.source, userAgent |-> ua, timestamp |-> IsoTime(t)])

\* dataObject.timing = { client_timestamp, server_start_timestamp, ... }, with
\* clientTimestamp = body.client_timestamp || Date.now().  A body carries its
\* client_timestamp as the text of a JSON number; the number 0 is falsy.
Timing(body, t) ==
  LET client == IF Truthy(body.client_timestamp) /\ ParseInt(body.client_timestamp).val # 0
                THEN ParseInt(body.client_timestamp).val ELSE t
  IN  Some([client_timestamp          |-> client,
            server_start_timestamp    |-> t,
            server_end_timestamp      |-> t,
            server_processing_time_ms |-> 0,
            total_processing_time_ms  |-> t - client])

\* A data object begun empty and not as a copy of the body.
DataObjectWithoutCopy(body, fileUploads, ua, t) ==
  [[k \in {DataKeys[i] : i \in 1..Len(DataKeys)} |-> Absent(k)]
     EXCEPT !.files    = Some(fileUploads),
            !.timing   = Timing(body, t),
            !.metadata = MergeMetadata(Nothing, ua, t)]

\* The object the handler stores as the record's data.
DataObject(body, fileUploads, ua, t) ==
  LET copy == JsonParse(JsonStringify(body))
  IN  [copy EXCEPT !.files    = Some(fileUploads),
                   !.timing   = Timing(body, t),
                   !.metadata = MergeMetadata(copy.metadata, ua, t)]

\* InsertStatus without the fallback for a label the enum lacks.
InsertStatusUnchecked(bodyStatus) == OrElse(bodyStatus, "pending")

\* let status = body.status || "pending"; if the enum has no such label, "pending"
InsertStatus(bodyStatus) ==
  LET status == OrElse(bodyStatus, "pending")
  IN  IF DbStatusExists(status) THEN status ELSE "pending"

\* The validation applied to the title of the body and not to the defaulted one.
MissingRequiredUndefaulted(body) ==
  \/ ~Truthy(body.app_name)
  \/ ~Truthy(body.title)
  \/ ~Truthy(body.description)

\* if (!app_name || !title || !body.description)
MissingRequired(body) ==
  \/ ~Truthy(body.app_name)
  \/ ~Truthy(OrElse(body.title, "Untitled Request"))
  \/ ~Truthy(body.description)

\* The handler at time t; fault is the number of the statement the store
\* fails on for a reason of its own (0: none).
PostRun(table, body, ua, stamp, rnd, puts, fault, t) ==
  LET type     == OrElse(body.type, "bug")
      title    == OrElse(body.title, "Untitled Request")
      status   == InsertStatus(body.status)
      ticketId == OrElse(body.ticketNumber, GenerateTicketNumber(type, stamp, rnd))
      files    == IF body.files.some THEN body.files.v ELSE <<>>
      uploads  == UploadFiles(files, puts)
      nput     == PutCalls(files)
      data     == DataObject(body, uploads, ua, t)
      ins      == IF fault = 2 THEN Raised(table)
                  ELSE DbInsert(table, <<ticketId, body.app_name, type, title, status,
                                         JsonStringify(data)>>, t)
  IN  IF fault = 1
      THEN ServerError("Failed to submit feedback", Raised(table), <<"SELECT pg_enum">>, 0, table)
      ELSE IF MissingRequired(body)
      THEN Outcome(400, [error |-> "Missing required fields"], <<"SELECT pg_enum">>, 0, table)
      ELSE IF ins.raised
      THEN ServerError("Failed to submit feedback", ins, <<"SELECT pg_enum", "INSERT">>, nput,
                       ins.table)
      ELSE Outcome(200,
                   [success |-> TRUE, id |-> ins.rows[1].id, title |-> title,
                    created_at |-> ins.rows[1].created_at,
                    message |-> "Feedback submitted successfully"],
                   <<"SELECT pg_enum", "INSERT">>, nput, ins.table)

(***************************************************************************)
(* GET /support/{id}                                                       *)
(***************************************************************************)
\* A row as the driver hands it over: the JSONB columns parsed.
RowObject(r) == [r EXCEPT !.data = JsonParse(r.data)]

GetRun(table, id, fault) ==
  LET sel == IF fault = 1 THEN Raised(table) ELSE DbSelectById(table, id)
  IN  IF sel.raised
      THEN ServerError("Failed to retrieve feedback", sel, <<"SELECT">>, 0, table)
      ELSE IF Len(sel.rows) = 0 THEN NotFound(<<"SELECT">>, table)
      ELSE Outcome(200, [success |-> TRUE, data |-> RowObject(sel.rows[1])],
                   <<"SELECT">>, 0, table)

(***************************************************************************)
(* PATCH /support/{id}                                                     *)
(***************************************************************************)
\* The TypeError of result.rows[0].id when the UPDATE returned no row.
NoRowError == [message |-> "Cannot read properties of undefined (reading 'id')"]

\* The handler once the record is known to exist.
PatchExisting(table, id, body, fault, t) ==
  LET validate == Truthy(body.status)
      s1       == <<"SELECT">>
      s2       == IF validate THEN Append(s1, "SELECT pg_enum") ELSE s1
      s3       == Append(s2, "UPDATE")
      q        == BuildUpdateQuery(id, body)
      upd      == IF fault = Len(s3) THEN Raised(table) ELSE DbUpdate(table, q, t)
  IN  IF validate /\ fault = 2
      THEN ServerError("Failed to update feedback", Raised(table), s2, 0, table)
      ELSE IF validate /\ ~DbStatusExists(body.status)
      THEN Outcome(400, [error |-> "Invalid status value"], s2, 0, table)
      \* result.rows[0] of an UPDATE that matched no row is undefined
      ELSE IF upd.raised
      THEN ServerError("Failed to update feedback", upd, s3, 0, upd.table)
      ELSE IF Len(upd.rows) = 0
      THEN ServerError("Failed to update feedback", NoRowError, s3, 0, upd.table)
      ELSE Outcome(200,
                   [success |-> TRUE, id |-> upd.rows[1].id, title |-> upd.rows[1].title,
                    status |-> upd.rows[1].status, modified_at |-> upd.rows[1].modified_at,
                    message |-> "Feedback updated successfully"],
                   s3, 0, upd.table)

\* PatchRun without its check that the record exists.
PatchRunUnchecked(table, id, body, fault, t) ==
  IF fault = 1
  THEN ServerError("Failed to update feedback", Raised(table), <<"SELECT">>, 0, table)
  ELSE PatchExisting(table, id, body, fault, t)

PatchRun(table, id, body, fault, t) ==
  LET chk == IF fault = 1 THEN Raised(table) ELSE DbSelectById(table, id)
  IN  IF chk.raised
      THEN ServerError("Failed to update feedback", chk, <<"SELECT">>, 0, table)
      ELSE IF Len(chk.rows) = 0 THEN NotFound(<<"SELECT">>, table)
      ELSE PatchExisting(table, id, body, fault, t)

(***************************************************************************)
(* DELETE /support/{id}                                                    *)
(***************************************************************************)
DeleteRun(table, id, fault) ==
  LET chk == IF fault = 1 THEN Raised(table) ELSE DbSelectById(table, id)
      del == IF fault = 2 THEN Raised(table) ELSE DbDelete(table, id)
  IN  IF chk.raised
      THEN ServerError("Failed to delete feedback", chk, <<"SELECT">>, 0, table)
      ELSE IF Len(chk.rows) = 0 THEN NotFound(<<"SELECT">>, table)
      ELSE IF del.raised
      THEN ServerError("Failed to delete feedback", del, <<"SELECT", "DELETE">>, 0, table)
      ELSE Outcome(200, [success |-> TRUE, message |-> "Feedback deleted successfully"],
                   <<"SELECT", "DELETE">>, 0, del.table)

(***************************************************************************)
(* POST /support/init, and the initialisation it replaced.  The handler    *)
(* sends its statements one by one, outside any transaction: when one      *)
(* raises, the ones before it have taken effect.                           *)
(***************************************************************************)
\* NextResponse.json(body, { status }): a response given no headers.
WithoutHeaders(resp1) == [resp1 EXCEPT !.cors = UNDEFINED]

\* An initialisation that adds the title column to any table it finds,
\* without looking for the column.
InitPlanUnchecked(sch) ==
  <<"CREATE TYPE", "SELECT tables">>
  \o (IF sch.table # "none"
      THEN <<"ALTER TABLE", "UPDATE title">>
      ELSE <<"CREATE TABLE", "CREATE INDEX app", "CREATE INDEX type",
             "CREATE INDEX status", "CREATE INDEX title">>)
  \o <<"SELECT tables", "SELECT structure">>

\* The statements the handler sends when none raises.
InitPlan(sch) ==
  <<"CREATE TYPE", "SELECT tables">>
  \o (IF sch.table # "none"
      THEN <<"SELECT columns">>
           \o (IF sch.title THEN <<>> ELSE <<"ALTER TABLE", "UPDATE title">>)
      ELSE <<"CREATE TABLE", "CREATE INDEX app", "CREATE INDEX type",
             "CREATE INDEX status", "CREATE INDEX title">>)
  \o <<"SELECT tables", "SELECT structure">>

\* The statements of the older initialisation.
InitLegacyPlan ==
  <<"CREATE TABLE serial", "CREATE INDEX app", "CREATE INDEX type", "CREATE INDEX status">>

\* (data->>'title')::VARCHAR(255)
TitleOfData(data) ==
  LET title == JsonParse(data).title
  IN  IF title = UNDEFINED THEN NULL ELSE title

\* The schema and the rows a statement of the initialisation leaves.
DbDefine(st, stmt) ==
  CASE stmt = "CREATE TYPE" ->
         \* IF NOT EXISTS (SELECT 1 FROM pg_type ...) THEN CREATE TYPE
         [st EXCEPT !.schema.type = TRUE]
    [] stmt = "CREATE TABLE" ->
         \* CREATE TABLE IF NOT EXISTS feedback (id VARCHAR(50) PRIMARY KEY, ...)
         IF st.schema.table # "none" THEN st
         ELSE [st EXCEPT !.schema.table = "varchar", !.schema.title = TRUE]
    [] stmt = "CREATE TABLE serial" ->
         \* CREATE TABLE IF NOT EXISTS feedback (id SERIAL PRIMARY KEY, ...)
         IF st.schema.table # "none" THEN st
         ELSE [st EXCEPT !.schema.table = "serial", !.schema.title = FALSE]
    [] stmt = "CREATE INDEX app" ->
         [st EXCEPT !.schema.indexes = @ \cup {"app"}]
    [] stmt = "CREATE INDEX type" ->
         [st EXCEPT !.schema.indexes = @ \cup {"type"}]
    [] stmt = "CREATE INDEX status" ->
         [st EXCEPT !.schema.indexes = @ \cup {"status"}]
    [] stmt = "CREATE INDEX title" ->
         [st EXCEPT !.schema.indexes = @ \cup {"title"}]
    [] stmt = "ALTER TABLE" ->
         \* ALTER TABLE feedback ADD COLUMN title VARCHAR(255)
         [st EXCEPT !.schema.title = TRUE]
    [] stmt = "UPDATE title" ->
         \* UPDATE feedback SET title = (data->>'title')::VARCHAR(255) WHERE title IS NULL
         [st EXCEPT !.table = {IF r.title = NULL THEN [r EXCEPT !.title = TitleOfData(r.data)]
                               ELSE r : r \in st.table}]
    [] OTHER -> st

\* The error a statement of the initialisation raises by its own doing, if any.
DefineError(st, stmt) ==
  CASE stmt = "CREATE TABLE" /\ st.schema.table = "none" /\ ~st.schema.type ->
         "type \"feedback_status\" does not exist"
    [] stmt = "ALTER TABLE" /\ st.schema.table = "none" ->
         "relation \"feedback\" does not exist"
    [] stmt = "ALTER TABLE" /\ st.schema.table # "none" /\ st.schema.title ->
         "column \"title\" of relation \"feedback\" already exists"
    [] stmt = "UPDATE title" /\ ~st.schema.title ->
         "column \"title\" does not exist"
    [] stmt = "CREATE INDEX title" /\ ~st.schema.title ->
         "column \"title\" does not exist"
    [] stmt \in {"CREATE INDEX app", "CREATE INDEX type", "CREATE INDEX status"}
         /\ st.schema.table = "none" ->
         "relation \"feedback\" does not exist"
    [] OTHER -> UNDEFINED

\* The statements of plan from the i-th on, one after another until one
\* raises: the fault-th one for no reason of its own, or one by its own doing.
RECURSIVE RunFrom(_, _, _, _)
RunFrom(plan, i, st, fault) ==
  IF i > Len(plan) THEN [st |-> st, failed |-> 0, message |-> UNDEFINED]
  ELSE IF i = fault THEN [st |-> st, failed |-> i, message |-> FaultMessage]
  ELSE IF DefineError(st, plan[i]) # UNDEFINED
  THEN [st |-> st, failed |-> i, message |-> DefineError(st, plan[i])]
  ELSE RunFrom(plan, i + 1, DbDefine(st, plan[i]), fault)

InitRun(sch, table, fault) ==
  LET plan == InitPlan(sch)
      run  == RunFrom(plan, 1, [schema |-> sch, table |-> table], fault)
      st   == run.st
      out  == IF run.failed > 0
              THEN ServerError("Failed to initialize feedback table", run,
                               SubSeq(plan, 1, run.failed), 0, st.table)
              ELSE Outcome(200, [success |-> TRUE,
                                 message |-> "Feedback table initialized successfully"],
                           plan, 0, st.table)
  IN  [resp |-> WithoutHeaders(out.resp), table |-> st.table, schema |-> st.schema]

InitLegacyRun(sch, table, fault) ==
  LET plan == InitLegacyPlan
      run  == RunFrom(plan, 1, [schema |-> sch, table |-> table], fault)
      st   == run.st
      out  == IF run.failed > 0
              THEN ServerErrorWithoutDetails("Failed to initialize feedback table",
                                             run, SubSeq(plan, 1, run.failed), 0,
                                             st.table)
              ELSE Outcome(200, [success |-> TRUE,
                                 message |-> "Feedback table initialized successfully"],
                           plan, 0, st.table)
  IN  [resp |-> WithoutHeaders(out.resp), table |-> st.table, schema |-> st.schema]

(***************************************************************************)
(* POST /support as it was before the title column and the ticket numbers: *)
(* the INSERT names no id and no title.                                    *)
(***************************************************************************)
\* if (!app_name || !title || !description)
MissingRequiredLegacy(body) ==
  \/ ~Truthy(body.app_name)
  \/ ~Truthy(body.title)
  \/ ~Truthy(body.description)

\* const data = { title, description, location, user, files, metadata }
DataObjectLegacy(body, fileUploads, ua, t) ==
  [[k \in {DataKeys[i] : i \in 1..Len(DataKeys)} |-> Absent(k)]
     EXCEPT !.title       = body.title,
            !.description = body.description,
            !.files       = Some(fileUploads),
            !.metadata    = Some([source |-> UNDEFINED, userAgent |-> ua,
                                  timestamp |-> IsoTime(t)])]

\* INSERT INTO feedback (app, type, status, data) VALUES ($1..$4) RETURNING id, created_at
DbInsertLegacy(sch, table, v, t) ==
  IF sch.table = "none"
  THEN Failed("relation \"feedback\" does not exist", table)
  ELSE IF sch.table = "varchar"
  THEN Failed("null value in column \"id\" violates not-null constraint", table)
  ELSE LET row == [id |-> ToString(sch.nextId), app |-> v[1], type |-> v[2],
                   title |-> NULL, status |-> v[3], data |-> v[4],
                   notes |-> DefaultNotes, created_at |-> t, modified_at |-> t]
       IN  Returned(<<row>>, table \cup {row})

PostRunLegacy(sch, table, body, ua, puts, fault, t) ==
  LET type    == OrElse(body.type, "bug")
      status  == OrElse(body.status, "pending")
      files   == IF body.files.some THEN body.files.v ELSE <<>>
      uploads == UploadFiles(files, puts)
      data    == DataObjectLegacy(body, uploads, ua, t)
      ins     == IF fault = 1 THEN Raised(table)
                 ELSE DbInsertLegacy(sch, table,
                                     <<body.app_name, type, status, JsonStringify(data)>>, t)
      out     == IF MissingRequiredLegacy(body)
                 THEN Outcome(400, [error |-> "Missing required fields"], <<>>, 0, table)
                 ELSE IF ins.raised
                 THEN ServerErrorWithoutDetails("Failed to submit feedback", ins,
                                                <<"INSERT">>, PutCalls(files), table)
                 ELSE Outcome(200,
                              [success |-> TRUE, id |-> ins.rows[1].id,
                               created_at |-> ins.rows[1].created_at,
                               message |-> "Feedback submitted successfully"],
                              <<"INSERT">>, PutCalls(files), ins.table)
  IN  [resp   |-> out.resp, table |-> out.table,
       schema |-> IF out.resp.code = 200 THEN [sch EXCEPT !.nextId = @ + 1] ELSE sch]

\* POST /support over a schema that may not be the one of its initialisation:
\* the validation query raises when the type is missing, and the INSERT
\* raises when the table is missing or was made by the older initialisation.
PostOnSchema(sch, table, body, ua, stamp, rnd, puts, fault, t) ==
  IF sch.type /\ sch.table = "varchar"
  THEN PostRun(table, body, ua, stamp, rnd, puts, fault, t)
  ELSE IF fault = 1
  THEN ServerError("Failed to submit feedback", Raised(table), <<"SELECT pg_enum">>, 0, table)
  ELSE IF ~sch.type
  THEN ServerError("Failed to submit feedback",
                   Failed("type \"feedback_status\" does not exist", table),
                   <<"SELECT pg_enum">>, 0, table)
  ELSE IF MissingRequired(body)
  THEN Outcome(400, [error |-> "Missing required fields"], <<"SELECT pg_enum">>, 0, table)
  ELSE ServerError("Failed to submit feedback",
                   IF fault = 2 THEN Raised(table)
                   ELSE IF sch.table = "none"
                   THEN Failed("relation \"feedback\" does not exist", table)
                   ELSE Failed("invalid input syntax for type integer", table),
                   <<"SELECT pg_enum", "INSERT">>,
                   PutCalls(IF body.files.some THEN body.files.v ELSE <<>>), table)

(***************************************************************************)
(* POST /support/report-bug: the bug report goes to the CRM (Monday.com):  *)
(* one request creates the item, then one request per file attaches it.    *)
(* The requests sent are listed as the statements of the response.         *)
(***************************************************************************)
\* The entry of fileUploadResults for a file, given what the CRM answered.
\* answer: "ok", "refused" (the response is not ok) or "errors" (its JSON has errors).
BugFileEntry(name, answer) ==
  IF answer = "ok" THEN [name |-> name, success |-> TRUE, error |-> UNDEFINED]
  ELSE IF answer = "refused" THEN [name |-> name, success |-> FALSE, error |-> "Bad Request"]
  ELSE [name |-> name, success |-> FALSE, error |-> "Unsupported file"]

\* The number of files handled before a fetch throws (all of them if none does).
FirstThrow(answers) ==
  IF \E i \in 1..Len(answers) : answers[i] = "throws"
  THEN CHOOSE i \in 1..Len(answers) :
         answers[i] = "throws" /\ \A j \in 1..(i - 1) : answers[j] # "throws"
  ELSE Len(answers) + 1

\* The handler: hasKey tells whether MONDAY_API_KEY is set, form is the form
\* data (unreadable when request.formData() throws), created is what the CRM
\* answers to the creation ("ok", "errors", "throws") and answers what it
\* answers for each file.
ReportBugRun(table, hasKey, form, created, answers) ==
  LET create == <<"create_item">>
      upto   == FirstThrow(answers)
      sent   == [i \in 1..(IF upto > Len(answers) THEN Len(answers) ELSE upto) |->
                   "add_file_to_column"]
  IN  IF ~hasKey
      THEN Outcome(500, [error |-> "API key is missing"], <<>>, 0, table)
      ELSE IF form.unreadable
      THEN Outcome(500, [error |-> "Failed to submit bug report"], <<>>, 0, table)
      ELSE IF ~Truthy(form.title) \/ ~Truthy(form.description) \/ ~Truthy(form.location)
      THEN Outcome(400, [error |-> "Missing required fields"], <<>>, 0, table)
      ELSE IF created = "throws"
      THEN Outcome(500, [error |-> "Failed to submit bug report"], create, 0, table)
      ELSE IF created = "errors"
      THEN Outcome(500, [error |-> "Error creating bug report in Monday.com"], create, 0,
                   table)
      ELSE IF upto <= Len(answers)
      THEN Outcome(500, [error |-> "Failed to submit bug report"], create \o sent, 0, table)
      ELSE Outcome(200,
                   [success |-> TRUE, id |-> "item-1",
                    fileUploads |-> [i \in 1..Len(answers) |->
                                       BugFileEntry(form.files[i], answers[i])]],
                   create \o sent, 0, table)

(***************************************************************************)
(* The feedback component's locale.  env is what the code reads from its   *)
(* surroundings: window (whether there is one), intl (the locale of        *)
(* next-intl, or NoIntlContext when useLocale() throws), url (the locale   *)
(* parameter of the URL), stored (localStorage "feedbackLanguage"),        *)
(* browser (navigator.language) and default (feedbackConfig's              *)
(* defaultLanguage).                                                       *)
(***************************************************************************)
\* const translationsMap = { en, es }
SupportedLocales == {"en", "es"}

NoIntlContext == "<no context>"

\* navigator.language.split("-")[0]
BaseLanguage(tag) ==
  CASE tag = "en-US" -> "en"
    [] tag = "es-MX" -> "es"
    [] tag = "es"    -> "es"
    [] tag = "fr-FR" -> "fr"
    [] tag = ""      -> ""

\* The catch block of the effect: URL parameter, stored preference, browser
\* language, else the default detectedLocale started with.
LocaleFallback(env) ==
  IF ~env.window THEN env.default
  ELSE IF Truthy(env.url) /\ env.url \in SupportedLocales THEN env.url
  ELSE IF Truthy(env.stored) /\ env.stored \in SupportedLocales THEN env.stored
  ELSE IF Truthy(BaseLanguage(env.browser)) /\ BaseLanguage(env.browser) \in SupportedLocales
  THEN BaseLanguage(env.browser)
  ELSE env.default

\* The effect of useDetectedLocale: try { detectedLocale = nextIntlLocale }
\* catch { ... }.  The try block is an assignment of a value already read: it
\* does not throw, and the catch block does not run.
DetectedLocale(env) ==
  LET assigned == [threw |-> FALSE, value |-> env.intl]
  IN  IF assigned.threw THEN LocaleFallback(env) ELSE assigned.value

\* getCurrentLanguage(); navigator.language that is undefined makes split
\* throw, which the try swallows.
GetCurrentLanguage(env) ==
  IF ~env.window THEN env.default
  ELSE IF Truthy(env.stored) /\ env.stored \in SupportedLocales THEN env.stored
  ELSE IF env.browser = UNDEFINED THEN env.default
  ELSE IF Truthy(BaseLanguage(env.browser)) /\ BaseLanguage(env.browser) \in SupportedLocales
  THEN BaseLanguage(env.browser)
  ELSE env.default

(***************************************************************************)
(* The feedback component's translations.  A JavaScript value is a record  *)
(* tagged with its type; the text of a string value is a list of pieces,   *)
(* a piece being literal text or a pair of braces with the text between    *)
(* them, so that the placeholders a template holds can be told.  The       *)
(* translation files en.json and es.json are not among the sources: their  *)
(* trees are inputs.                                                       *)
(***************************************************************************)
JsUndefined == [t |-> "undefined"]

JsString(pieces) == [t |-> "string", pieces |-> pieces]

JsNumber(n) == [t |-> "number", n |-> n]

JsFunction(name) == [t |-> "function", name |-> name]

\* An object with the own properties o.
JsObject(o) == [t |-> "object", o |-> o]

Lit(text) == [brace |-> FALSE, text |-> text]

Brace(name) == [brace |-> TRUE, text |-> name]

\* The characters of a string value.
RECURSIVE TextFrom(_, _)
TextFrom(pieces, i) ==
  IF i > Len(pieces) THEN ""
  ELSE (IF pieces[i].brace THEN "{" \o pieces[i].text \o "}" ELSE pieces[i].text)
       \o TextFrom(pieces, i + 1)

TextOf(pieces) == TextFrom(pieces, 1)

\* Properties every object inherits from Object.prototype (some of them).
ObjectPrototype == {"constructor", "toString", "valueOf"}

\* value[k]: an own property, else an inherited one, else undefined.
Get(value, k) ==
  IF value.t = "object" /\ k \in DOMAIN value.o THEN value.o[k]
  ELSE IF value.t \in {"object", "function"} /\ k \in ObjectPrototype THEN JsFunction(k)
  ELSE JsUndefined

\* String(value)
JsToString(value) ==
  CASE value.t = "string" -> TextOf(value.pieces)
    [] value.t = "number" -> ToString(value.n)
    [] value.t = "function" -> "function " \o value.name \o "() { [native code] }"
    [] value.t = "object" -> "[object Object]"
    [] OTHER -> "undefined"

JsTruthy(value) ==
  CASE value.t = "undefined" -> FALSE
    [] value.t = "string" -> TextOf(value.pieces) # ""
    [] value.t = "number" -> value.n # 0
    [] OTHER -> TRUE

\* key.split(".")
KeySegments(key) ==
  CASE key = "title"       -> <<"title">>
    [] key = "greeting"    -> <<"greeting">>
    [] key = "form"        -> <<"form">>
    [] key = "form.submit" -> <<"form", "submit">>
    [] key = "form.count"  -> <<"form", "count">>
    [] key = "title.x"     -> <<"title", "x">>
    [] key = "missing"     -> <<"missing">>
    [] key = "toString"    -> <<"toString">>
    [] key = ""            -> <<"">>

\* Whether /\w+/ matches the whole of the text between two braces.
IsWord(name) ==
  CASE name \in {"name", "count", "toString", "who"} -> TRUE
    [] name \in {"first-name", ""} -> FALSE

\* for (const k of keys) { if (value && typeof value === "object") value = value[k]
\* else return key }
RECURSIVE Walk(_, _, _)
Walk(value, keys, i) ==
  IF i > Len(keys) THEN [found |-> TRUE, value |-> value]
  ELSE IF JsTruthy(value) /\ value.t = "object" THEN Walk(Get(value, keys[i]), keys, i + 1)
  ELSE [found |-> FALSE, value |-> JsUndefined]

\* value.replace(/\{(\w+)\}/g, (_, paramKey) =>
\*   params[paramKey] !== undefined ? String(params[paramKey]) : `{${paramKey}}`)
ReplaceParams(pieces, params) ==
  [i \in 1..Len(pieces) |->
     IF pieces[i].brace /\ IsWord(pieces[i].text)
        /\ Get(params, pieces[i].text).t # "undefined"
     THEN Lit(JsToString(Get(params, pieces[i].text)))
     ELSE pieces[i]]

\* translateFn(key, params); params is JsUndefined when none is given.
Translate(translations, component, key, params) ==
  LET w == Walk(Get(translations, component), KeySegments(key), 1)
  IN  IF ~w.found THEN key
      ELSE IF w.value.t = "string" /\ JsTruthy(params)
      THEN TextOf(ReplaceParams(w.value.pieces, params))
      ELSE IF w.value.t = "string" THEN TextOf(w.value.pieces)
      ELSE key

\* The tree of a translation file: hello is its word of greeting, by which
\* the files differ.
TranslationFile(hello) ==
  JsObject([Feedback |->
    JsObject([title    |-> JsString(<<Lit("Feedback")>>),
              greeting |-> JsString(<<Lit(hello), Lit(" "), Brace("name"), Lit(", "),
                                      Brace("count"), Lit(" "), Brace("who")>>),
              form     |-> JsObject([submit |-> JsString(<<Lit("Send "), Brace("first-name"),
                                                           Lit(" "), Brace("toString")>>),
                                     count  |-> JsNumber(3)])])])

\* const translationsMap = { en, es }
TranslationsMap ==
  JsObject([en |-> TranslationFile("Hello"), es |-> TranslationFile("Hola")])

\* return translationsMap[locale] || translationsMap[defaultLanguage] || translationsMap["en"]
GetTranslations(locale, default) ==
  IF JsTruthy(Get(TranslationsMap, locale)) THEN Get(TranslationsMap, locale)
  ELSE IF JsTruthy(Get(TranslationsMap, default)) THEN Get(TranslationsMap, default)
  ELSE Get(TranslationsMap, "en")

(***************************************************************************)
(* GET /support                                                            *)
(***************************************************************************)
\* A handler that says there is more whenever it returns a row.
ListRunMoreAfterAnyRow(table, p, fault, o) ==
  LET limit  == ParseInt(OrElse(p.limit, "50"))
      offset == ParseInt(OrElse(p.offset, "0"))
      q      == BuildListQuery(p.app, p.type, p.status, p.title, limit, offset)
      sel    == IF fault = 1 THEN Raised(table) ELSE DbSelectList(table, q, o)
  IN  IF sel.raised
      THEN ServerError("Failed to retrieve feedback", sel, <<"SELECT">>, 0, table)
      ELSE Outcome(200,
                   [success |-> TRUE,
                    data |-> [i \in 1..Len(sel.rows) |-> RowObject(sel.rows[i])],
                    count |-> Len(sel.rows),
                    pagination |-> [limit |-> limit.val, offset |-> offset.val,
                                    hasMore |-> Len(sel.rows) > 0]],
                   <<"SELECT">>, 0, table)

\* The handler, o being the order the store puts the rows of the table in.
ListRun(table, p, fault, o) ==
  LET limit  == ParseInt(OrElse(p.limit, "50"))
      offset == ParseInt(OrElse(p.offset, "0"))
      q      == BuildListQuery(p.app, p.type, p.status, p.title, limit, offset)
      sel    == IF fault = 1 THEN Raised(table) ELSE DbSelectList(table, q, o)
  IN  IF sel.raised
      THEN ServerError("Failed to retrieve feedback", sel, <<"SELECT">>, 0, table)
      ELSE Outcome(200,
                   [success |-> TRUE,
                    data |-> [i \in 1..Len(sel.rows) |-> RowObject(sel.rows[i])],
                    count |-> Len(sel.rows),
                    pagination |-> [limit |-> limit.val, offset |-> offset.val,
                                    hasMore |-> Len(sel.rows) = limit.val]],
                   <<"SELECT">>, 0, table)

(***************************************************************************)
(* The requests of the model.                                              *)
(***************************************************************************)
\* A body with no member.
EmptyBody ==
  [app_name |-> UNDEFINED, type |-> UNDEFINED, title |-> UNDEFINED,
   description |-> UNDEFINED, status |-> UNDEFINED, ticketNumber |-> UNDEFINED,
   client_timestamp |-> UNDEFINED, console_logs |-> UNDEFINED,
   files |-> Nothing, metadata |-> Nothing, timing |-> Nothing]

\* { app_name: "demo", title: "t", description: "d" }
DemoBody == [EmptyBody EXCEPT !.app_name = "demo", !.title = "t", !.description = "d"]

\* Bodies of POST: the status absent, a label of the enum, or "waiting", which
\* the documentation of PATCH lists and the enum lacks; with a ticket number
\* or without; one body that lacks a required field and one that names its type.
PostBodies ==
  {[DemoBody EXCEPT !.status = s, !.ticketNumber = n] :
     s \in {UNDEFINED, "resolved", "waiting"}, n \in {UNDEFINED, "T-1"}}
  \cup {[DemoBody EXCEPT !.description = UNDEFINED],
        [DemoBody EXCEPT !.type = "suggestion", !.ticketNumber = "T-1"]}

EmptyPatch ==
  [type |-> UNDEFINED, title |-> UNDEFINED, status |-> UNDEFINED,
   data |-> Nothing, notes |-> Nothing]

PatchBodies ==
  {[EmptyPatch EXCEPT !.status = s, !.title = ti] :
     s \in {UNDEFINED, "", "closed", "waiting"}, ti \in {UNDEFINED, "T"}}

\* The ids requests name: the ticket number of PostBodies, the ticket number
\* the handler generates for them, and one no record ever has.
SomeIds == {"T-1", "BUG-L0A0Q7ZK", "T-404"}

Bools(n) == [1..n -> BOOLEAN]

(***************************************************************************)
(* The actions: a run of a handler, the return of its response, and the    *)
(* clock.                                                                  *)
(***************************************************************************)
NoRequest == [op |-> "none"]

NoResponse == [code |-> 0, body |-> [error |-> UNDEFINED], stmts |-> <<>>, puts |-> 0,
               cors |-> "*"]

Idle == req = NoRequest

Served(request, out) ==
  /\ req' = request
  /\ resp' = out.resp
  /\ feedback' = out.table
  /\ before' = feedback
  /\ submitted' =
       IF request.op = "POST" /\ out.resp.code = 200
       THEN submitted \cup {[id |-> out.resp.body.id, body |-> request.body]}
       ELSE IF request.op \in {"PATCH", "DELETE"}
       THEN {s \in submitted : s.id # request.id}
       ELSE submitted
  /\ UNCHANGED <<now, schema, initialized>>

POST(bodies, stamps, rnds, faults) ==
  /\ Idle
  /\ \E body \in bodies, stamp \in stamps, rnd \in rnds, fault \in faults :
       \E puts \in Bools(IF body.files.some THEN Len(body.files.v) ELSE 0) :
         Served([op |-> "POST", body |-> body, stamp |-> stamp, rnd |-> rnd,
                 puts |-> puts, fault |-> fault],
                PostOnSchema(schema, feedback, body, "curl/8", stamp, rnd, puts, fault, now))

GET(ids, faults) ==
  /\ Idle
  /\ \E id \in ids, fault \in faults :
       Served([op |-> "GET", id |-> id, fault |-> fault], GetRun(feedback, id, fault))

PATCH(ids, bodies, faults) ==
  /\ Idle
  /\ \E id \in ids, body \in bodies, fault \in faults :
       Served([op |-> "PATCH", id |-> id, body |-> body, fault |-> fault],
              PatchRun(feedback, id, body, fault, now))

DELETE(ids, faults) ==
  /\ Idle
  /\ \E id \in ids, fault \in faults :
       Served([op |-> "DELETE", id |-> id, fault |-> fault],
              DeleteRun(feedback, id, fault))

LIST(params, faults) ==
  /\ Idle
  /\ \E p \in params, fault \in faults, o \in Orderings(feedback) :
       Served([op |-> "LIST", params |-> p, fault |-> fault],
              ListRun(feedback, p, fault, o))

REPORT_BUG(forms) ==
  /\ Idle
  /\ \E hasKey \in BOOLEAN, form \in forms, created \in {"ok", "errors", "throws"} :
       \E answers \in [1..Len(form.files) -> {"ok", "refused", "errors", "throws"}] :
         Served([op |-> "REPORT_BUG", hasKey |-> hasKey, form |-> form,
                 created |-> created, answers |-> answers],
                ReportBugRun(feedback, hasKey, form, created, answers))

\* A request served by a handler that may change the schema.
ServedOnSchema(request, out) ==
  /\ req' = request
  /\ resp' = out.resp
  /\ feedback' = out.table
  /\ schema' = out.schema
  /\ before' = feedback
  /\ initialized' = (initialized \/ (request.op = "INIT" /\ out.resp.code = 200))
  /\ UNCHANGED <<now, submitted>>

INIT(faults) ==
  /\ Idle
  /\ \E fault \in faults :
       ServedOnSchema([op |-> "INIT", fault |-> fault, schema |-> schema, again |-> initialized],
                      InitRun(schema, feedback, fault))

INIT_LEGACY(faults) ==
  /\ Idle
  /\ \E fault \in faults :
       ServedOnSchema([op |-> "INIT_LEGACY", fault |-> fault, schema |-> schema],
                      InitLegacyRun(schema, feedback, fault))

POST_LEGACY(bodies, faults) ==
  /\ Idle
  /\ schema.nextId <= MaxSerial
  /\ \E body \in bodies, fault \in faults :
       \E puts \in Bools(IF body.files.some THEN Len(body.files.v) ELSE 0) :
         ServedOnSchema([op |-> "POST_LEGACY", body |-> body, puts |-> puts, fault |-> fault],
                        PostRunLegacy(schema, feedback, body, "curl/8", puts, fault, now))

(***************************************************************************)
(* Two requests served at once.  The handlers are async functions: each    *)
(* statement is awaited, and between two statements of one request the     *)
(* statements of the other may run.  req.procs holds, for each of the two, *)
(* its body and the statement it is to send next; resp holds the response  *)
(* of each (code 0 until it answers) with the statements it has sent;      *)
(* req.order lists the requests whose UPDATE or DELETE found the record,   *)
(* in the order these statements ran.                                      *)
(***************************************************************************)
Pending ==
  req.op = "CONCURRENT" /\ \E i \in 1..2 : req.procs[i].pc # "done"

\* Two PATCH requests for the same id arrive.
ArrivePatches(ids, bodies) ==
  /\ Idle
  /\ \E id \in ids, b1 \in bodies, b2 \in bodies :
       req' = [op |-> "CONCURRENT", id |-> id, fault |-> 0,
               procs |-> <<[op |-> "PATCH", body |-> b1, pc |-> "check"],
                           [op |-> "PATCH", body |-> b2, pc |-> "check"]>>,
               order |-> <<>>]
  /\ resp' = <<NoResponse, NoResponse>>
  /\ before' = feedback
  /\ submitted' = {}
  /\ UNCHANGED <<schema, feedback, now, initialized>>

\* A PATCH and a DELETE for the same id arrive.
ArrivePatchAndDelete(ids, bodies) ==
  /\ Idle
  /\ \E id \in ids, b \in bodies :
       req' = [op |-> "CONCURRENT", id |-> id, fault |-> 0,
               procs |-> <<[op |-> "PATCH", body |-> b, pc |-> "check"],
                           [op |-> "DELETE", body |-> EmptyPatch, pc |-> "check"]>>,
               order |-> <<>>]
  /\ resp' = <<NoResponse, NoResponse>>
  /\ before' = feedback
  /\ submitted' = {}
  /\ UNCHANGED <<schema, feedback, now, initialized>>

\* Two DELETE requests for the same id arrive.
ArriveDeletes(ids) ==
  /\ Idle
  /\ \E id \in ids :
       req' = [op |-> "CONCURRENT", id |-> id, fault |-> 0,
               procs |-> <<[op |-> "DELETE", body |-> EmptyPatch, pc |-> "check"],
                           [op |-> "DELETE", body |-> EmptyPatch, pc |-> "check"]>>,
               order |-> <<>>]
  /\ resp' = <<NoResponse, NoResponse>>
  /\ before' = feedback
  /\ submitted' = {}
  /\ UNCHANGED <<schema, feedback, now, initialized>>

\* Request i has sent a statement: pc is what it does next, out the response
\* it has so far and the table the statement leaves.
Stepped(i, pc, out, wrote) ==
  /\ req' = [req EXCEPT !.procs[i].pc = pc,
                        !.order = IF wrote THEN Append(@, i) ELSE @]
  /\ resp' = [resp EXCEPT ![i] = out.resp]
  /\ feedback' = out.table
  /\ UNCHANGED <<schema, now, before, submitted, initialized>>

\* The response of a request that has sent stmts and has not answered yet.
Unanswered(stmts, table) == Outcome(0, NoResponse.body, stmts, 0, table)

\* const checkResult = await executeQuery(checkQuery, [id])
PatchCheck ==
  /\ Pending
  /\ \E i \in 1..2 :
       /\ req.procs[i].op = "PATCH" /\ req.procs[i].pc = "check"
       /\ LET chk == DbSelectById(feedback, req.id)
          IN  IF Len(chk.rows) = 0
              THEN Stepped(i, "done", NotFound(<<"SELECT">>, feedback), FALSE)
              ELSE Stepped(i, IF Truthy(req.procs[i].body.status) THEN "validate"
                              ELSE "update",
                           Unanswered(<<"SELECT">>, feedback), FALSE)

\* const statusValidResult = await executeQuery(validStatusQuery, [status])
PatchValidate ==
  /\ Pending
  /\ \E i \in 1..2 :
       /\ req.procs[i].op = "PATCH" /\ req.procs[i].pc = "validate"
       /\ LET s2 == Append(resp[i].stmts, "SELECT pg_enum")
          IN  IF ~DbStatusExists(req.procs[i].body.status)
              THEN Stepped(i, "done",
                           Outcome(400, [error |-> "Invalid status value"], s2, 0, feedback),
                           FALSE)
              ELSE Stepped(i, "update", Unanswered(s2, feedback), FALSE)

\* const result = await executeQuery(updateQuery, values), and the response
PatchUpdate ==
  /\ Pending
  /\ \E i \in 1..2 :
       /\ req.procs[i].op = "PATCH" /\ req.procs[i].pc = "update"
       /\ LET s3  == Append(resp[i].stmts, "UPDATE")
              upd == DbUpdate(feedback, BuildUpdateQuery(req.id, req.procs[i].body), now)
          IN  IF upd.raised
              THEN Stepped(i, "done",
                           ServerError("Failed to update feedback", upd, s3, 0, upd.table),
                           FALSE)
              ELSE IF Len(upd.rows) = 0
              THEN Stepped(i, "done",
                           ServerError("Failed to update feedback", NoRowError, s3, 0,
                                       upd.table),
                           FALSE)
              ELSE Stepped(i, "done",
                           Outcome(200,
                                   [success |-> TRUE, id |-> upd.rows[1].id,
                                    title |-> upd.rows[1].title,
                                    status |-> upd.rows[1].status,
                                    modified_at |-> upd.rows[1].modified_at,
                                    message |-> "Feedback updated successfully"],
                                   s3, 0, upd.table),
                           TRUE)

\* DELETE: const checkResult = await executeQuery(checkQuery, [id])
DeleteCheck ==
  /\ Pending
  /\ \E i \in 1..2 :
       /\ req.procs[i].op = "DELETE" /\ req.procs[i].pc = "check"
       /\ IF Len(DbSelectById(feedback, req.id).rows) = 0
          THEN Stepped(i, "done", NotFound(<<"SELECT">>, feedback), FALSE)
          ELSE Stepped(i, "delete", Unanswered(<<"SELECT">>, feedback), FALSE)

\* await executeQuery(deleteQuery, [id]), and the response
DeleteRemove ==
  /\ Pending
  /\ \E i \in 1..2 :
       /\ req.procs[i].op = "DELETE" /\ req.procs[i].pc = "delete"
       /\ LET del == DbDelete(feedback, req.id)
          IN  Stepped(i, "done",
                      Outcome(200,
                              [success |-> TRUE, message |-> "Feedback deleted successfully"],
                              Append(resp[i].stmts, "DELETE"), 0, del.table),
                      del.table # feedback)

\* A component that calls useDetectedLocale() renders for the first time:
\* useState(defaultLanguage) and useLocale(); the effect has not run.
MOUNT(envs) ==
  /\ Idle
  /\ \E env \in envs :
       /\ req' = [op |-> "USE_LOCALE", env |-> env, effect |-> FALSE]
       /\ resp' = [NoResponse EXCEPT
                     !.body = IF env.intl = NoIntlContext
                              THEN [locale |-> UNDEFINED, thrown |-> TRUE]
                              ELSE [locale |-> env.default, thrown |-> FALSE]]
  /\ before' = feedback
  /\ UNCHANGED <<schema, feedback, now, submitted, initialized>>

\* The effect runs, in the browser, after the first render: setLocale(detectedLocale).
EFFECT ==
  /\ req.op = "USE_LOCALE"
  /\ req.env.window /\ ~req.effect /\ ~resp.body.thrown
  /\ req' = [req EXCEPT !.effect = TRUE]
  /\ resp' = [resp EXCEPT !.body.locale = DetectedLocale(req.env)]
  /\ UNCHANGED <<schema, feedback, now, before, submitted, initialized>>

GET_LANGUAGE(envs) ==
  /\ Idle
  /\ \E env \in envs :
       /\ req' = [op |-> "GET_LANGUAGE", env |-> env]
       /\ resp' = [NoResponse EXCEPT
                     !.body = [locale |-> GetCurrentLanguage(env), thrown |-> FALSE]]
  /\ before' = feedback
  /\ UNCHANGED <<schema, feedback, now, submitted, initialized>>

\* The translation function useTranslations(component) returns is called,
\* the component having the locale locale.
TRANSLATE(locales, components, keys, paramsGiven) ==
  /\ Idle
  /\ \E locale \in locales, default \in SupportedLocales, component \in components,
        key \in keys, params \in paramsGiven :
       /\ req' = [op |-> "TRANSLATE", locale |-> locale, default |-> default,
                  component |-> component, key |-> key, params |-> params]
       /\ resp' = [NoResponse EXCEPT
                     !.body = [value |-> Translate(GetTranslations(locale, default),
                                                   component, key, params)]]
  /\ before' = feedback
  /\ UNCHANGED <<schema, feedback, now, submitted, initialized>>

GET_TRANSLATIONS(locales) ==
  /\ Idle
  /\ \E locale \in locales, default \in SupportedLocales :
       /\ req' = [op |-> "GET_TRANSLATIONS", locale |-> locale, default |-> default]
       /\ resp' = [NoResponse EXCEPT
                     !.body = [translations |-> GetTranslations(locale, default)]]
  /\ before' = feedback
  /\ UNCHANGED <<schema, feedback, now, submitted, initialized>>

\* The response goes back to the client.
Return ==
  /\ ~Idle
  /\ ~Pending
  /\ req' = NoRequest
  /\ resp' = NoResponse
  /\ before' = feedback
  /\ UNCHANGED <<schema, feedback, now, submitted, initialized>>

\* Time passes between requests, and between the statements of requests
\* served at once.
Tick ==
  /\ Idle \/ Pending
  /\ now < MaxTime
  /\ now' = now + 1
  /\ UNCHANGED <<schema, feedback, req, resp, before, submitted, initialized>>

\* The table as POST /support/init leaves it, and no request yet.
Init ==
  /\ schema = NativeSchema
  /\ initialized = TRUE
  /\ feedback = {}
  /\ now = 0
  /\ req = NoRequest
  /\ resp = NoResponse
  /\ before = {}
  /\ submitted = {}

(***************************************************************************)
(* Spec: the four record handlers.                                         *)
(***************************************************************************)
Next ==
  \/ POST(PostBodies, {"L0A0"}, {"Q7ZK"}, 0..1)
  \/ GET(SomeIds, 0..1)
  \/ PATCH(SomeIds, PatchBodies, 0..1)
  \/ DELETE(SomeIds, 0..1)
  \/ Return
  \/ Tick

Spec == Init /\ [][Next]_vars

(***************************************************************************)
(* SpecQuery: the listing query of GET /support, built for every           *)
(* combination of its parameters.                                          *)
(***************************************************************************)
NoParams ==
  [app |-> UNDEFINED, type |-> UNDEFINED, status |-> UNDEFINED, title |-> UNDEFINED,
   limit |-> UNDEFINED, offset |-> UNDEFINED]

\* Each filter absent, empty or given; the limit and the offset absent, a
\* number, or no number.
QueryParams ==
  {[app |-> a, type |-> ty, status |-> st, title |-> ti, limit |-> l, offset |-> o] :
     a \in {UNDEFINED, "", "demo"}, ty \in {UNDEFINED, "", "bug"},
     st \in {UNDEFINED, "", "resolved"}, ti \in {UNDEFINED, "", "t"},
     l \in {UNDEFINED, "2", "abc"}, o \in {UNDEFINED, "1"}}

\* The query the handler builds from the parameters p.
ListQueryOf(p) ==
  BuildListQuery(p.app, p.type, p.status, p.title,
                 ParseInt(OrElse(p.limit, "50")), ParseInt(OrElse(p.offset, "0")))

\* The query the older handler builds from them.
ListQueryLegacyOf(p) ==
  BuildListQueryLegacy(p.app, p.type, p.status,
                       ParseInt(OrElse(p.limit, "50")), ParseInt(OrElse(p.offset, "0")))

Built(op, p, q) ==
  /\ req' = [op |-> op, params |-> p]
  /\ resp' = [NoResponse EXCEPT !.body = [query |-> q]]
  /\ before' = feedback
  /\ UNCHANGED <<schema, feedback, now, submitted, initialized>>

BuildList ==
  /\ Idle
  /\ \E p \in QueryParams : Built("BUILD", p, ListQueryOf(p))

BuildListLegacy ==
  /\ Idle
  /\ \E p \in QueryParams : Built("BUILD_LEGACY", p, ListQueryLegacyOf(p))

NextQuery == BuildList \/ BuildListLegacy \/ Return

SpecQuery == Init /\ [][NextQuery]_vars

(***************************************************************************)
(* SpecList: records made by POST /support and listed by GET /support,     *)
(* with limits below, at and above the number of records.                  *)
(***************************************************************************)
\* Bodies of three ticket numbers and two titles.
ListedBodies ==
  {[DemoBody EXCEPT !.ticketNumber = n, !.title = ti] :
     n \in {"T-1", "T-2", "T-3"}, ti \in {"t", "ab"}}

\* The limit absent, empty, a number, a number with a tail, negative, or no
\* number; the offset absent, a number or negative; the title filter absent
\* or given.
ListParams ==
  {[NoParams EXCEPT !.limit = l, !.offset = o, !.title = ti] :
     l \in {UNDEFINED, "", "0", "1", "2", "1x", "-1", "abc"},
     o \in {UNDEFINED, "1", "-1"}, ti \in {UNDEFINED, "t"}}

NextList ==
  \/ POST(ListedBodies, {"L0A0"}, {"Q7ZK"}, 0..1)
  \/ LIST(ListParams, 0..1)
  \/ Return
  \/ Tick

SpecList == Init /\ [][NextList]_vars

(***************************************************************************)
(* SpecFilter: records of two titles and two types made by POST /support   *)
(* and listed by GET /support under every combination of its filters.      *)
(***************************************************************************)
FilteredBodies ==
  {[DemoBody EXCEPT !.ticketNumber = n, !.title = ti, !.type = ty] :
     n \in {"T-1", "T-2"}, ti \in {"t", "ab"}, ty \in {UNDEFINED, "suggestion"}}

\* Each filter absent or given: an app that has records and one that has
\* none, a type, a status, a title text in the other case, one that some
\* titles hold, and one that is a wildcard of LIKE.
FilterParams ==
  {[app |-> a, type |-> ty, status |-> st, title |-> ti, limit |-> l, offset |-> o] :
     a \in {UNDEFINED, "demo", "web"}, ty \in {UNDEFINED, "bug"},
     st \in {UNDEFINED, "pending"}, ti \in {UNDEFINED, "T", "b", "_"},
     l \in {UNDEFINED, "1"}, o \in {UNDEFINED, "1"}}

NextFilter ==
  \/ POST(FilteredBodies, {"L0A0"}, {"Q7ZK"}, 0..1)
  \/ LIST(FilterParams, 0..1)
  \/ Return
  \/ Tick

SpecFilter == Init /\ [][NextFilter]_vars

(***************************************************************************)
(* SpecTicket: POST /support with and without a ticket number, for bodies  *)
(* of each type.                                                           *)
(***************************************************************************)
TicketBodies ==
  {[DemoBody EXCEPT !.type = ty, !.ticketNumber = n] :
     ty \in {UNDEFINED, "bug", "suggestion", "question"}, n \in {UNDEFINED, "", "T-1"}}

NextTicket ==
  \/ POST(TicketBodies, {"L0A0"}, {"Q7ZK"}, 0..1)
  \/ GET({"T-1", "SUP-L0A0Q7ZK"}, 0..1)
  \/ Return
  \/ Tick

SpecTicket == Init /\ [][NextTicket]_vars

(***************************************************************************)
(* SpecInit: the database from before any initialisation, initialised by   *)
(* POST /support/init or by the older initialisation, and filled by the    *)
(* POST /support of either generation.                                     *)
(***************************************************************************)
InitBlank ==
  /\ schema = NoSchema
  /\ initialized = FALSE
  /\ feedback = {}
  /\ now = 0
  /\ req = NoRequest
  /\ resp = NoResponse
  /\ before = {}
  /\ submitted = {}

\* Bodies of the older POST: with a status of no enum, and without a title.
LegacyBodies ==
  {DemoBody, [DemoBody EXCEPT !.status = "waiting"], [DemoBody EXCEPT !.title = UNDEFINED]}

NextInit ==
  \/ INIT(0..9)
  \/ INIT_LEGACY(0..4)
  \/ POST_LEGACY(LegacyBodies, 0..1)
  \/ POST({DemoBody, [DemoBody EXCEPT !.ticketNumber = "T-1"]}, {"L0A0"}, {"Q7ZK"}, 0..2)
  \/ Return
  \/ Tick

SpecInit == InitBlank /\ [][NextInit]_vars

(***************************************************************************)
(* SpecPost: POST /support with each of app_name, title and description    *)
(* absent, empty or given.                                                 *)
(***************************************************************************)
RequiredBodies ==
  {[EmptyBody EXCEPT !.app_name = a, !.title = ti, !.description = d,
                     !.ticketNumber = n] :
     a \in {UNDEFINED, "", "demo"}, ti \in {UNDEFINED, "", "t"},
     d \in {UNDEFINED, "", "d"}, n \in {UNDEFINED, "T-1"}}

NextPost ==
  \/ POST(RequiredBodies, {"L0A0"}, {"Q7ZK"}, 0..2)
  \/ GET(SomeIds, 0..1)
  \/ Return
  \/ Tick

SpecPost == Init /\ [][NextPost]_vars

(***************************************************************************)
(* SpecData: records made by POST /support from bodies with console logs,  *)
(* files, metadata and timing of their own, and fetched by GET             *)
(* /support/{id}.                                                          *)
(***************************************************************************)
\* { name: "a.png", data: "QUJD" } and a file without a name.
GoodFile == [name |-> "a.png", data |-> "QUJD", type |-> UNDEFINED]

NamelessFile == [name |-> UNDEFINED, data |-> "QUJD", type |-> "image/png"]

ClientMetadata == [source |-> "web", userAgent |-> "client-ua", timestamp |-> "client-ts"]

ClientTiming ==
  [client_timestamp |-> 7, server_start_timestamp |-> 7, server_end_timestamp |-> 7,
   server_processing_time_ms |-> 7, total_processing_time_ms |-> 7]

DataBodies ==
  {[DemoBody EXCEPT !.ticketNumber = "T-1", !.console_logs = logs, !.files = fs,
                    !.metadata = md, !.timing = tm, !.client_timestamp = ct] :
     logs \in {UNDEFINED, "log"},
     fs \in {Nothing, Some(<<>>), Some(<<GoodFile>>), Some(<<GoodFile, NamelessFile>>),
             Some(<<NamelessFile, GoodFile>>)},
     md \in {Nothing, Some(ClientMetadata)},
     tm \in {Nothing, Some(ClientTiming)},
     ct \in {UNDEFINED, "3"}}

NextData ==
  \/ POST(DataBodies, {"L0A0"}, {"Q7ZK"}, 0..2)
  \/ GET({"T-1", "T-404"}, 0..1)
  \/ Return
  \/ Tick

SpecData == Init /\ [][NextData]_vars

(***************************************************************************)
(* SpecUpdateQuery: the update query of PATCH /support/{id}, built for     *)
(* every combination of the fields of its body.                            *)
(***************************************************************************)
\* A data object a PATCH sends: one that only holds a title.
PatchedData == [k \in {DataKeys[i] : i \in 1..Len(DataKeys)} |->
                  IF k = "title" THEN "Edited" ELSE Absent(k)]

\* Each text field absent, empty or given; data and notes absent or given.
UpdateBodies ==
  {[type |-> ty, title |-> ti, status |-> st, data |-> d, notes |-> n] :
     ty \in {UNDEFINED, "", "suggestion"}, ti \in {UNDEFINED, "", "T"},
     st \in {UNDEFINED, "", "closed"}, d \in {Nothing, Some(PatchedData)},
     n \in {Nothing, Some(<<"seen">>)}}

BuildUpdate ==
  /\ Idle
  /\ \E id \in {"T-1", "T-2"}, body \in UpdateBodies :
       /\ req' = [op |-> "BUILD_UPDATE", id |-> id, body |-> body]
       /\ resp' = [NoResponse EXCEPT !.body = [query |-> BuildUpdateQuery(id, body)]]
  /\ before' = feedback
  /\ UNCHANGED <<schema, feedback, now, submitted, initialized>>

NextUpdateQuery == BuildUpdate \/ Return

SpecUpdateQuery == Init /\ [][NextUpdateQuery]_vars

(***************************************************************************)
(* SpecPatch: PATCH /support/{id} on one of two records, with bodies that  *)
(* provide none, one, several or all of the five fields.                   *)
(***************************************************************************)
FramePatches ==
  {EmptyPatch,
   [EmptyPatch EXCEPT !.type = "suggestion"],
   [EmptyPatch EXCEPT !.title = "T"],
   [EmptyPatch EXCEPT !.status = "closed"],
   [EmptyPatch EXCEPT !.data = Some(PatchedData)],
   [EmptyPatch EXCEPT !.notes = Some(<<"seen">>)],
   [EmptyPatch EXCEPT !.type = "", !.title = "", !.status = ""],
   [EmptyPatch EXCEPT !.status = "waiting", !.title = "T"],
   [type |-> "support", title |-> "T2", status |-> "resolved",
    data |-> Some(PatchedData), notes |-> Some(<<"seen", "fixed">>)]}

NextPatch ==
  \/ POST({[DemoBody EXCEPT !.ticketNumber = "T-1"],
           [DemoBody EXCEPT !.ticketNumber = "T-2", !.type = "suggestion"]},
          {"L0A0"}, {"Q7ZK"}, 0..1)
  \/ PATCH({"T-1", "T-404"}, FramePatches, 0..2)
  \/ Return
  \/ Tick

SpecPatch == Init /\ [][NextPatch]_vars

(***************************************************************************)
(* SpecTwoPatches: two PATCH requests for one record served at once.       *)
(***************************************************************************)
TwoPatchBodies ==
  {EmptyPatch,
   [EmptyPatch EXCEPT !.status = "closed", !.title = "T"],
   [EmptyPatch EXCEPT !.status = "resolved", !.title = "T2"],
   [EmptyPatch EXCEPT !.status = "waiting", !.title = "T"],
   [EmptyPatch EXCEPT !.type = "suggestion", !.notes = Some(<<"seen">>)],
   [EmptyPatch EXCEPT !.notes = Some(<<"fixed">>), !.status = "resolved"]}

NextTwoPatches ==
  \/ POST({[DemoBody EXCEPT !.ticketNumber = "T-1"]}, {"L0A0"}, {"Q7ZK"}, 0..1)
  \/ ArrivePatches({"T-1"}, TwoPatchBodies)
  \/ PatchCheck
  \/ PatchValidate
  \/ PatchUpdate
  \/ Return
  \/ Tick

SpecTwoPatches == Init /\ [][NextTwoPatches]_vars

(***************************************************************************)
(* SpecPatchDelete: a PATCH and a DELETE for one record served at once.    *)
(***************************************************************************)
NextPatchDelete ==
  \/ POST({[DemoBody EXCEPT !.ticketNumber = "T-1"]}, {"L0A0"}, {"Q7ZK"}, 0..1)
  \/ ArrivePatchAndDelete({"T-1"}, TwoPatchBodies)
  \/ PatchCheck
  \/ PatchValidate
  \/ PatchUpdate
  \/ DeleteCheck
  \/ DeleteRemove
  \/ Return
  \/ Tick

SpecPatchDelete == Init /\ [][NextPatchDelete]_vars

(***************************************************************************)
(* SpecTwoDeletes: two DELETE requests for one record served at once.      *)
(***************************************************************************)
NextTwoDeletes ==
  \/ POST({[DemoBody EXCEPT !.ticketNumber = n] : n \in {"T-1", "T-2"}},
          {"L0A0"}, {"Q7ZK"}, 0..1)
  \/ ArriveDeletes({"T-1", "T-2"})
  \/ DeleteCheck
  \/ DeleteRemove
  \/ Return
  \/ Tick

SpecTwoDeletes == Init /\ [][NextTwoDeletes]_vars

(***************************************************************************)
(* SpecDelete: two records made, fetched, listed, changed and deleted.     *)
(***************************************************************************)
NextDelete ==
  \/ POST({[DemoBody EXCEPT !.ticketNumber = n] : n \in {"T-1", "T-2"}},
          {"L0A0"}, {"Q7ZK"}, 0..1)
  \/ LIST({NoParams, [NoParams EXCEPT !.limit = "1"]}, 0..1)
  \/ GET({"T-1", "T-2"}, 0..1)
  \/ PATCH({"T-1", "T-2"}, {EmptyPatch, [EmptyPatch EXCEPT !.title = "T"]}, 0..1)
  \/ DELETE({"T-1", "T-2"}, 0..2)
  \/ Return
  \/ Tick

SpecDelete == Init /\ [][NextDelete]_vars

(***************************************************************************)
(* SpecLocale: the locale of the feedback component in every surrounding.  *)
(***************************************************************************)
LocaleEnvs ==
  [window : BOOLEAN, intl : {"en", "es", "fr", NoIntlContext},
   url : {UNDEFINED, "es", "fr"}, stored : {UNDEFINED, "en", "de"},
   browser : {UNDEFINED, "es-MX", "fr-FR"}, default : {"en", "es"}]

NextLocale ==
  \/ MOUNT(LocaleEnvs)
  \/ EFFECT
  \/ GET_LANGUAGE(LocaleEnvs)
  \/ Return

SpecLocale == Init /\ [][NextLocale]_vars

(***************************************************************************)
(* SpecPostError: POST /support with and without files, with a required    *)
(* field missing, with an id that is taken, and with the store failing.    *)
(***************************************************************************)
FailingBodies ==
  {[DemoBody EXCEPT !.ticketNumber = n, !.description = d, !.files = fs] :
     n \in {"T-1", "T-2"}, d \in {UNDEFINED, "d"},
     fs \in {Nothing, Some(<<GoodFile>>), Some(<<GoodFile, NamelessFile>>)}}

NextPostError ==
  \/ POST(FailingBodies, {"L0A0"}, {"Q7ZK"}, 0..2)
  \/ Return
  \/ Tick

SpecPostError == Init /\ [][NextPostError]_vars

(***************************************************************************)
(* SpecTranslate: the translation function, for keys that name a string,   *)
(* an object, a number or nothing, with and without params.                *)
(***************************************************************************)
TranslateLocales == {"en", "es", "fr", "", "toString"}

TranslateKeys ==
  {"title", "greeting", "form", "form.submit", "form.count", "title.x", "missing",
   "toString", ""}

TranslateParams ==
  {JsUndefined,
   JsObject(<<>>),
   JsObject([name |-> JsString(<<Lit("Ann")>>)]),
   JsObject([name |-> JsString(<<Lit("Ann")>>), count |-> JsNumber(0)]),
   JsObject([who |-> JsString(<<Brace("name")>>)]),
   JsObject([x \in {"first-name"} |-> JsString(<<Lit("Ann")>>)])}

NextTranslate ==
  \/ TRANSLATE(TranslateLocales, {"Feedback", "Other"}, TranslateKeys, TranslateParams)
  \/ GET_TRANSLATIONS(TranslateLocales)
  \/ Return

SpecTranslate == Init /\ [][NextTranslate]_vars

(***************************************************************************)
(* SpecRoutes: every route handler, over the initialised database.         *)
(***************************************************************************)
BugForm ==
  [unreadable |-> FALSE, app_name |-> "demo", title |-> "t", description |-> "d",
   location |-> "/home", user |-> UNDEFINED, files |-> <<>>]

BugForms ==
  {BugForm, [BugForm EXCEPT !.unreadable = TRUE], [BugForm EXCEPT !.location = UNDEFINED],
   [BugForm EXCEPT !.files = <<"a.png">>], [BugForm EXCEPT !.files = <<"a.png", "b.png">>]}

(***************************************************************************)
(* SpecReportBug: POST /support/report-bug with and without the API key,   *)
(* with forms that lack a field and forms of up to three files, the CRM    *)
(* answering each request well or badly or not at all.                     *)
(***************************************************************************)
ReportedForms ==
  BugForms \cup
  {[BugForm EXCEPT !.title = UNDEFINED, !.files = <<"a.png">>],
   [BugForm EXCEPT !.description = ""],
   [BugForm EXCEPT !.app_name = UNDEFINED],
   [BugForm EXCEPT !.files = <<"a.png", "b.png", "c.png">>]}

NextReportBug == REPORT_BUG(ReportedForms) \/ Return

SpecReportBug == Init /\ [][NextReportBug]_vars

RouteBodies ==
  {[DemoBody EXCEPT !.ticketNumber = "T-1"], [DemoBody EXCEPT !.description = UNDEFINED],
   [DemoBody EXCEPT !.ticketNumber = "T-1", !.files = Some(<<GoodFile>>)]}

RoutePatches ==
  {EmptyPatch, [EmptyPatch EXCEPT !.status = "closed"], [EmptyPatch EXCEPT !.status = "waiting"]}

RouteParams == {NoParams, [NoParams EXCEPT !.limit = "abc"], [NoParams EXCEPT !.title = "t"]}

NextRoutes ==
  \/ POST(RouteBodies, {"L0A0"}, {"Q7ZK"}, 0..2)
  \/ LIST(RouteParams, 0..1)
  \/ GET({"T-1", "T-404"}, 0..1)
  \/ PATCH({"T-1", "T-404"}, RoutePatches, 0..3)
  \/ DELETE({"T-1", "T-404"}, 0..2)
  \/ INIT(0..5)
  \/ REPORT_BUG(BugForms)
  \/ Return
  \/ Tick

SpecRoutes == Init /\ [][NextRoutes]_vars

(***************************************************************************)
(* C1.  In the listing query of GET /support, whichever of the filters     *)
(* app, type, status and title are provided (present and not empty), the   *)
(* placeholders are as many as the provided filters plus two, they are     *)
(* $1, $2, ..., $n in the order they stand in the query, with no gap and   *)
(* no reuse, the values list has n entries, and the value at each          *)
(* placeholder is the one its condition is about.  The older handler has   *)
(* no title filter: its filters are app, type and status.                  *)
(***************************************************************************)
Count(b) == IF b THEN 1 ELSE 0

Provided(p, legacy) ==
  Count(Truthy(p.app)) + Count(Truthy(p.type)) + Count(Truthy(p.status))
  + (IF legacy THEN 0 ELSE Count(Truthy(p.title)))

BoundOf(p, col) ==
  IF col = "title" THEN LikePattern(p.title) ELSE p[col]

C1_PlaceholdersSequential ==
  req.op \in {"BUILD", "BUILD_LEGACY"} =>
    LET q  == resp.body.query
        p  == req.params
        n  == Provided(p, req.op = "BUILD_LEGACY") + 2
    IN  /\ Len(Placeholders(q)) = n
        /\ Placeholders(q) = [i \in 1..n |-> i]
        /\ Len(q.values) = n
        /\ \A i \in 1..Len(q.where) :
             /\ Truthy(p[q.where[i].col])
             /\ q.values[q.where[i].ph] = BoundOf(p, q.where[i].col)
        /\ q.values[q.limitPh] = ParseInt(OrElse(p.limit, "50"))
        /\ q.values[q.offsetPh] = ParseInt(OrElse(p.offset, "0"))

\* All four filters given: six placeholders.
C1_Witness ==
  /\ req.op = "BUILD"
  /\ Provided(req.params, FALSE) = 4
  /\ Len(resp.body.query.values) = 6
  /\ Placeholders(resp.body.query) = <<1, 2, 3, 4, 5, 6>>

(***************************************************************************)
(* What the claims speak of.                                               *)
(***************************************************************************)
\* The status set as the specification of the repository enumerates it.
StatusSetOfSpec ==
  {"pending", "new", "inReview", "triaged", "inProgress", "planned", "blocked",
   "needsInfo", "resolved", "completed", "verified", "deployed", "closed",
   "duplicate", "wontFix", "invalid", "migrated", "archived", "reopened", "ok"}

Exists(table, id) == \E r \in table : r.id = id

RowOf(table, id) == CHOOSE r \in table : r.id = id

Sent(stmt) == \E i \in 1..Len(resp.stmts) : resp.stmts[i] = stmt

\* The first of two requests served at once has sent stmt.
Sent1(stmt) == \E i \in 1..Len(resp[1].stmts) : resp[1].stmts[i] = stmt

\* The handler of op has served a request during which the store failed for
\* no reason of its own.
Ran(op) == req.op = op /\ req.fault = 0

\* The id a POST gives its record.
TicketIdOf(r) ==
  IF Truthy(r.body.ticketNumber) THEN r.body.ticketNumber
  ELSE TicketPrefix(IF Truthy(r.body.type) THEN r.body.type ELSE "bug") \o r.stamp \o r.rnd

RequiredPresent(body) ==
  Truthy(body.app_name) /\ Truthy(body.title) /\ Truthy(body.description)

\* A PATCH with a status of the set has set it and stamped the record.
PatchedStatus ==
  /\ resp.code = 200
  /\ Exists(feedback, req.id)
  /\ RowOf(feedback, req.id).status = req.body.status
  /\ resp.body.status = req.body.status
  /\ RowOf(feedback, req.id).modified_at = now
  /\ RowOf(feedback, req.id).modified_at >= RowOf(before, req.id).modified_at
  /\ Sent("UPDATE")

\* A PATCH was refused for its status and sent no UPDATE.
RefusedStatus ==
  /\ resp.code = 400
  /\ feedback = before
  /\ ~Sent("UPDATE")

(***************************************************************************)
(* C2.  A PATCH of an existing record with a status value that  *)
(* is not in the status set responds 400 and leaves the record as it was,  *)
(* no UPDATE being sent; with a status of the set it sets the status and   *)
(* advances modified_at.  The empty string is a status value not in the    *)
(* set, and the handler does not refuse it.                                *)
(***************************************************************************)
C2_AsClaimed ==
  (Ran("PATCH") /\ Exists(before, req.id) /\ req.body.status # UNDEFINED) =>
    IF req.body.status \in StatusSetOfSpec THEN PatchedStatus ELSE RefusedStatus

(***************************************************************************)
(* What the handler keeps of C2: a PATCH of an existing record with a      *)
(* status value that is not empty and not in the status set responds 400   *)
(* and leaves every field of the record, modified_at too, as it was, no    *)
(* UPDATE being sent; the handler takes an empty status value for no       *)
(* status: the PATCH responds 200, keeps the status and sets modified_at;  *)
(* with a status of the set the PATCH sets the record's status to it and   *)
(* modified_at to the time of the update, not earlier than it was.         *)
(***************************************************************************)
C2_InvalidStatusRefused ==
  (Ran("PATCH") /\ Exists(before, req.id) /\ req.body.status # UNDEFINED) =>
    IF req.body.status \in StatusSetOfSpec THEN PatchedStatus
    ELSE IF req.body.status # "" THEN RefusedStatus
    ELSE /\ resp.code = 200
         /\ RowOf(feedback, req.id).status = RowOf(before, req.id).status
         /\ RowOf(feedback, req.id).modified_at = now

\* A PATCH carrying a new title and the status "waiting" was refused, after
\* time had passed since the record was made.
C2_Witness ==
  /\ Ran("PATCH")
  /\ Exists(before, req.id)
  /\ req.body.status = "waiting"
  /\ req.body.title = "T"
  /\ resp.code = 400
  /\ now > RowOf(before, req.id).modified_at

(***************************************************************************)
(* C3.  A POST with app_name, title and description whose status is absent *)
(* or not in the status set is not refused for it: unless its ticket       *)
(* number is taken, it responds 200 and the record it stores has the       *)
(* status "pending"; with a status of the set the record has that status.  *)
(***************************************************************************)
C3_InsertStatusCoerced ==
  (Ran("POST") /\ RequiredPresent(req.body)) =>
    /\ resp.code # 400
    /\ ~Exists(before, TicketIdOf(req)) =>
         /\ resp.code = 200
         /\ resp.body.id = TicketIdOf(req)
         /\ Exists(feedback, resp.body.id)
         /\ RowOf(feedback, resp.body.id).status =
              (IF req.body.status \in StatusSetOfSpec THEN req.body.status ELSE "pending")

\* A POST with the status "waiting" was accepted and its record is pending.
C3_Witness ==
  /\ Ran("POST")
  /\ req.body.status = "waiting"
  /\ resp.code = 200
  /\ RowOf(feedback, resp.body.id).status = "pending"
  /\ RowOf(feedback, resp.body.id) \notin before

C5_AbsentIdNotFound ==
  ((Ran("GET") \/ Ran("DELETE")) /\ ~Exists(before, req.id)) =>
    /\ resp.code = 404
    /\ feedback = before
    /\ ~Sent("DELETE")

\* A DELETE of an id no record has, the table holding a record.
C5_Witness ==
  /\ Ran("DELETE")
  /\ ~Exists(before, req.id)
  /\ before # {}
  /\ resp.code = 404

C9_CreatedThenFetched ==
  Ran("GET") =>
    \A s \in submitted :
      (s.id = req.id /\ RequiredPresent(s.body) /\ s.body.status = UNDEFINED) =>
        /\ resp.code = 200
        /\ resp.body.data.id = s.id
        /\ resp.body.data.app = s.body.app_name
        /\ resp.body.data.type = (IF s.body.type = UNDEFINED THEN "bug" ELSE s.body.type)
        /\ resp.body.data.title = s.body.title
        /\ resp.body.data.status = "pending"

\* The GET of a record submitted as a suggestion, the table holding two records.
C9_Witness ==
  /\ Ran("GET")
  /\ resp.code = 200
  /\ Cardinality(feedback) = 2
  /\ \E s \in submitted :
       s.id = req.id /\ s.body.status = UNDEFINED /\ s.body.type = "suggestion"

(***************************************************************************)
(* C10.  No two records of the table have the same id: a POST whose ticket *)
(* number, supplied or generated, is the id of a record adds no record and *)
(* leaves the table as it was; and a PATCH changes the id of no record.    *)
(***************************************************************************)
C10_IdUniqueAndFixed ==
  /\ \A r1, r2 \in feedback : r1.id = r2.id => r1 = r2
  /\ (req.op = "POST" /\ RequiredPresent(req.body) /\ Exists(before, TicketIdOf(req))) =>
       feedback = before /\ resp.code = 500
  /\ req.op = "PATCH" =>
       /\ {r.id : r \in feedback} = {r.id : r \in before}
       /\ Cardinality(feedback) = Cardinality(before)

\* A POST without a ticket number, the ticket number generated for it being
\* the id of a record made at another time.
C10_Witness ==
  /\ Ran("POST")
  /\ req.body.ticketNumber = UNDEFINED
  /\ RequiredPresent(req.body)
  /\ Exists(before, TicketIdOf(req))
  /\ RowOf(before, TicketIdOf(req)).created_at < now
  /\ Cardinality(before) = 2

(***************************************************************************)
(* C7.  A GET /support that succeeds returns at most limit rows, limit     *)
(* being 50 when the limit parameter is absent and the number the          *)
(* parameter gives otherwise, and pagination.hasMore is true exactly when  *)
(* the number of rows returned equals limit.                               *)
(***************************************************************************)
\* The limit the parameters ask for, where they ask for one in plain digits.
LimitAsked(p) ==
  CASE p.limit = UNDEFINED -> 50
    [] p.limit = "0" -> 0
    [] p.limit = "1" -> 1
    [] p.limit = "2" -> 2
    [] OTHER -> resp.body.pagination.limit

C7_ListWithinLimit ==
  (req.op = "LIST" /\ resp.code = 200) =>
    /\ resp.body.pagination.limit = LimitAsked(req.params)
    /\ Len(resp.body.data) <= resp.body.pagination.limit
    /\ resp.body.count = Len(resp.body.data)
    /\ resp.body.pagination.hasMore = (Len(resp.body.data) = resp.body.pagination.limit)
    /\ \A i \in 1..Len(resp.body.data) : Exists(feedback, resp.body.data[i].id)

\* A listing with the limit 1 of a table of three records: one row, and more
\* to come.
C7_Witness ==
  /\ Ran("LIST")
  /\ resp.code = 200
  /\ req.params.limit = "1"
  /\ Cardinality(feedback) = 3
  /\ Len(resp.body.data) = 1
  /\ resp.body.pagination.hasMore

SubmittedFiles(body) == IF body.files.some THEN body.files.v ELSE <<>>

C11_TimestampsMonotone ==
  /\ \A r \in feedback : r.created_at <= r.modified_at
  /\ \A old \in before : \A r \in feedback :
       r.id = old.id =>
         /\ r.created_at = old.created_at
         /\ r.modified_at >= old.modified_at
         /\ r.modified_at # old.modified_at =>
              req.op = "PATCH" /\ resp.code = 200 /\ req.id = r.id
  /\ (req.op = "PATCH" /\ resp.code = 200) =>
       /\ RowOf(feedback, req.id).modified_at = now
       /\ resp.body.modified_at = now

\* A PATCH at a later time than the insert, another record being in the table.
C11_Witness ==
  /\ req.op = "PATCH"
  /\ resp.code = 200
  /\ Cardinality(feedback) = 2
  /\ RowOf(before, req.id).modified_at < RowOf(feedback, req.id).modified_at
  /\ RowOf(feedback, req.id).created_at = RowOf(before, req.id).created_at

(***************************************************************************)
(* C12.  A POST /support whose body lacks any one of app_name, title and   *)
(* description responds 400 "Missing required fields" and creates no       *)
(* record.                                                                 *)
(***************************************************************************)
RefusedAsIncomplete ==
  /\ resp.code = 400
  /\ resp.body.error = "Missing required fields"
  /\ feedback = before
  /\ ~Sent("INSERT")

C12_AsClaimed ==
  (Ran("POST") /\ \E k \in {"app_name", "title", "description"} : req.body[k] = UNDEFINED) =>
    RefusedAsIncomplete

(***************************************************************************)
(* What the handler keeps of C12: a POST /support whose body lacks         *)
(* app_name or description, or has it empty, responds 400 "Missing         *)
(* required fields" and creates no record.                                 *)
(***************************************************************************)
C12_MissingAppOrDescription ==
  (Ran("POST") /\ \E k \in {"app_name", "description"} : req.body[k] \in {UNDEFINED, ""}) =>
    RefusedAsIncomplete

\* A POST without description was refused while the table holds a record.
C12_Witness ==
  /\ Ran("POST")
  /\ req.body.description = UNDEFINED
  /\ req.body.app_name = "demo"
  /\ req.body.title = "t"
  /\ before # {}
  /\ resp.code = 400

Uploadable(file) == file.name \notin {UNDEFINED, ""} /\ file.data \notin {UNDEFINED, ""}

C14_FilesHandledOneByOne ==
  (Ran("POST") /\ RequiredPresent(req.body) /\ ~Exists(before, TicketIdOf(req))) =>
    /\ resp.code = 200
    /\ Exists(feedback, resp.body.id)
    /\ LET files  == SubmittedFiles(req.body)
           stored == JsonParse(RowOf(feedback, resp.body.id).data).files
       IN  /\ stored.some
           /\ Len(stored.v) = Len(files)
           /\ resp.puts = Cardinality({i \in 1..Len(files) : Uploadable(files[i])})
           /\ \A i \in 1..Len(files) :
                IF Uploadable(files[i]) /\ req.puts[i]
                THEN /\ stored.v[i].name = files[i].name
                     /\ stored.v[i].url # UNDEFINED
                     /\ stored.v[i].error = UNDEFINED
                ELSE /\ stored.v[i].name =
                          (IF files[i].name \in {UNDEFINED, ""} THEN "unknown" ELSE files[i].name)
                     /\ stored.v[i].url = UNDEFINED
                     /\ stored.v[i].error # UNDEFINED

\* A file without a name came first and the file after it was stored.
C14_Witness ==
  /\ Ran("POST")
  /\ resp.code = 200
  /\ req.body.files = Some(<<NamelessFile, GoodFile>>)
  /\ req.puts[2]
  /\ JsonParse(RowOf(feedback, resp.body.id).data).files.v[2].url # UNDEFINED

(***************************************************************************)
(* C15.  Every response of every route handler (POST and GET /support,     *)
(* GET, PATCH and DELETE /support/{id}, POST /support/init, POST           *)
(* /support/report-bug), on its success path and on every error path,      *)
(* carries the header Access-Control-Allow-Origin: *.                      *)
(***************************************************************************)
C15_AsClaimed == ~Idle => resp.cors = "*"

(***************************************************************************)
(* What the handlers keep of C15: every response of POST and GET /support, *)
(* of GET, PATCH and DELETE /support/{id} and of POST /support/report-bug  *)
(* carries the header, whatever its status; no response of POST            *)
(* /support/init carries it.                                               *)
(***************************************************************************)
C15_AllButInitPermissive ==
  ~Idle => IF req.op = "INIT" THEN resp.cors = UNDEFINED ELSE resp.cors = "*"

\* A PATCH answered 400, with the header.
C15_Witness ==
  /\ req.op = "PATCH"
  /\ resp.code = 400
  /\ resp.cors = "*"

(***************************************************************************)
(* C16.  POST /support/init is idempotent: whatever the database was       *)
(* before the first successful invocation (no table, a table without the   *)
(* title column, an initialised table), an invocation after it succeeds    *)
(* and leaves the schema and every stored record as it finds them.         *)
(***************************************************************************)
C16_InitIdempotent ==
  (req.op = "INIT" /\ req.fault = 0 /\ req.again) =>
    /\ resp.code = 200
    /\ schema = req.schema
    /\ feedback = before

\* A second invocation over a table that the older initialisation made and
\* the first invocation gave its title column, with a record in it.
C16_Witness ==
  /\ req.op = "INIT"
  /\ req.fault = 0
  /\ req.again
  /\ resp.code = 200
  /\ schema.table = "serial"
  /\ schema.title
  /\ \E r \in feedback : r.title = "t"

(***************************************************************************)
(* C17.  In the handlers of POST and GET /support and of GET, PATCH and    *)
(* DELETE /support/{id}, when a statement sent to the store raises, the    *)
(* handler sends no statement after it and does not send it again, leaves  *)
(* the table as it was, and responds 500 with the message of the error in  *)
(* the details of the body.  This holds of a statement that raises for no  *)
(* reason of its own and of one the store refuses: the INSERT of a taken   *)
(* id, the listing with a limit that is no number.                         *)
(***************************************************************************)
FeedbackOps == {"POST", "LIST", "GET", "PATCH", "DELETE"}

C17_StorageErrorSurfaced ==
  /\ (req.op \in FeedbackOps /\ req.fault > 0 /\ Len(resp.stmts) >= req.fault) =>
       /\ Len(resp.stmts) = req.fault
       /\ resp.code = 500
       /\ resp.body.details = "Connection terminated unexpectedly"
       /\ feedback = before
  /\ (Ran("POST") /\ RequiredPresent(req.body) /\ Exists(before, TicketIdOf(req))) =>
       /\ resp.code = 500
       /\ resp.body.details = "duplicate key value violates unique constraint \"feedback_pkey\""
       /\ resp.stmts = <<"SELECT pg_enum", "INSERT">>
       /\ feedback = before
  /\ (Ran("LIST") /\ req.params.limit = "abc") =>
       /\ resp.code = 500
       /\ resp.body.details = "invalid input syntax for type bigint: \"NaN\""
       /\ resp.stmts = <<"SELECT">>

\* The UPDATE of a PATCH raised, after the lookup and the validation.
C17_Witness ==
  /\ req.op = "PATCH"
  /\ req.fault = 3
  /\ resp.stmts = <<"SELECT", "SELECT pg_enum", "UPDATE">>
  /\ resp.code = 500
  /\ resp.body.details = "Connection terminated unexpectedly"

(***************************************************************************)
(* C18.  When two PATCH requests for one existing record are served at     *)
(* once, in whatever order their statements run, neither is refused or     *)
(* kept waiting for the other: each whose body is valid responds 200; and  *)
(* once both have answered, each of the fields type, title, status and     *)
(* notes has the value given by the last UPDATE that set it, or the value  *)
(* it had if neither set it, and modified_at is that of the last UPDATE.   *)
(***************************************************************************)
\* The requests whose UPDATE ran and set the field, in the order they ran.
Writers(field) ==
  SelectSeq(req.order,
            LAMBDA i : IF field = "notes" THEN req.procs[i].body.notes.some
                       ELSE req.procs[i].body[field] \notin {UNDEFINED, ""})

LastWritten(field, old) ==
  IF Writers(field) = <<>> THEN old[field]
  ELSE LET b == req.procs[Writers(field)[Len(Writers(field))]].body
       IN  IF field = "notes" THEN b.notes.v ELSE b[field]

C18_LastWriteWins ==
  (req.op = "CONCURRENT" /\ ~Pending /\ Exists(before, req.id)) =>
    /\ \A i \in 1..2 :
         IF req.procs[i].body.status \in StatusSetOfSpec \cup {UNDEFINED}
         THEN resp[i].code = 200 /\ \E k \in 1..Len(req.order) : req.order[k] = i
         ELSE resp[i].code = 400 /\ \A k \in 1..Len(req.order) : req.order[k] # i
    /\ LET old == RowOf(before, req.id)
           row == RowOf(feedback, req.id)
       IN  /\ \A f \in {"type", "title", "status", "notes"} : row[f] = LastWritten(f, old)
           /\ req.order # <<>> =>
                row.modified_at = resp[req.order[Len(req.order)]].body.modified_at
           /\ row.id = old.id /\ row.app = old.app /\ row.created_at = old.created_at
           /\ row.data = old.data

\* Both requests set the status and the title, to different values, and the
\* second one's check ran before the first one's UPDATE.
C18_Witness ==
  /\ req.op = "CONCURRENT"
  /\ ~Pending
  /\ req.order = <<2, 1>>
  /\ req.procs[1].body.status = "closed" /\ req.procs[1].body.title = "T"
  /\ req.procs[2].body.status = "resolved" /\ req.procs[2].body.title = "T2"
  /\ resp[1].code = 200 /\ resp[2].code = 200
  /\ RowOf(feedback, req.id).status = "closed"
  /\ resp[2].body.modified_at < resp[1].body.modified_at

(***************************************************************************)
(* C19.  In the update query of PATCH /support/{id}, whichever of type,    *)
(* title, status, data and notes the body provides (k of them), the SET    *)
(* assignments are those of the provided fields, their placeholders and    *)
(* the one of the WHERE clause are $1..$k+1 with no gap and no reuse, the   *)
(* values list has k+1 entries, the value at the placeholder of an         *)
(* assignment is the value of its field (data and notes as JSON text), and *)
(* the id is at the last placeholder, which only the WHERE clause uses.    *)
(***************************************************************************)
PatchFields == {"type", "title", "status", "data", "notes"}

\* The fields a PATCH body provides: a text that is not empty, an object, a list.
ProvidedFields(body) ==
  {f \in PatchFields : IF f \in {"data", "notes"} THEN body[f].some
                       ELSE body[f] \notin {UNDEFINED, ""}}

SentValue(body, f) ==
  IF f = "data" THEN JsonStringify(body.data.v)
  ELSE IF f = "notes" THEN JsonStringifyArray(body.notes.v)
  ELSE body[f]

C19_UpdatePlaceholdersSequential ==
  req.op = "BUILD_UPDATE" =>
    LET q == resp.body.query
        k == Cardinality(ProvidedFields(req.body))
    IN  /\ Len(q.sets) = k
        /\ {q.sets[i].col : i \in 1..k} = ProvidedFields(req.body)
        /\ \A i \in 1..k : q.sets[i].ph = i
        /\ q.wherePh = k + 1
        /\ Len(q.values) = k + 1
        /\ \A i \in 1..k : q.values[q.sets[i].ph] = SentValue(req.body, q.sets[i].col)
        /\ q.values[q.wherePh] = req.id
        /\ \A i \in 1..k : q.sets[i].ph # q.wherePh

\* A body with type, data and notes and without title and status: three
\* assignments, the id at $4.
C19_Witness ==
  /\ req.op = "BUILD_UPDATE"
  /\ ProvidedFields(req.body) = {"type", "data", "notes"}
  /\ req.body.title = "" /\ req.body.status = UNDEFINED
  /\ resp.body.query.wherePh = 4
  /\ resp.body.query.values[3] = <<"seen">>

(***************************************************************************)
(* C20.  A PATCH /support/{id} that responds 200 leaves its record with    *)
(* the value of the body in each of type, title, status, data and notes    *)
(* the body provides and with the value it had in each it does not         *)
(* provide, and with the id, app and created_at it had; every other record *)
(* is as it was.  A PATCH whose body provides none of the five, on an      *)
(* existing record and with the store answering, responds 200 and changes  *)
(* modified_at only.                                                       *)
(***************************************************************************)
C20_PatchChangesOnlyProvided ==
  (req.op = "PATCH" /\ Exists(before, req.id)) =>
    LET old == RowOf(before, req.id)
        row == RowOf(feedback, req.id)
    IN  /\ resp.code = 200 =>
             /\ Exists(feedback, req.id)
             /\ \A f \in PatchFields :
                  row[f] = IF f \in ProvidedFields(req.body)
                           THEN SentValue(req.body, f) ELSE old[f]
             /\ row.id = old.id /\ row.app = old.app
             /\ row.created_at = old.created_at
             /\ row.modified_at = now
             /\ feedback \ {row} = before \ {old}
        /\ (ProvidedFields(req.body) = {} /\ req.fault = 0) =>
             /\ resp.code = 200
             /\ feedback = (before \ {old}) \cup {[old EXCEPT !.modified_at = now]}

\* Two records; a PATCH with a type and nothing else has answered 200 for
\* the first, some time after it was made.
C20_Witness ==
  /\ req.op = "PATCH"
  /\ resp.code = 200
  /\ ProvidedFields(req.body) = {"type"}
  /\ Exists(before, "T-2")
  /\ RowOf(feedback, req.id).type # RowOf(before, req.id).type
  /\ RowOf(feedback, req.id).title = "t"
  /\ RowOf(feedback, req.id).modified_at > RowOf(before, req.id).modified_at

\* A PATCH with an empty body has answered 200.
C20_WitnessEmptyBody ==
  /\ req.op = "PATCH"
  /\ resp.code = 200
  /\ req.body = EmptyPatch
  /\ Exists(before, "T-2")
  /\ RowOf(feedback, req.id).modified_at > RowOf(before, req.id).modified_at

(***************************************************************************)
(* C21, as claimed: every row GET /support returns has the app, the type   *)
(* and the status the filters give and a title that holds the text of the  *)
(* title filter as a literal substring, letter case aside; no row that     *)
(* fails a filter is returned; the rows come newest first, from position   *)
(* offset of that order on.                                                *)
(***************************************************************************)
\* text holds sub as a substring, letter case aside.
ContainsText(text, sub) ==
  LET t == TextChars(text)
      u == TextChars(sub)
  IN  \E k \in 0..(Len(t) - Len(u)) : \A i \in 1..Len(u) : Lower(t[k + i]) = Lower(u[i])

\* The row satisfies every filter the parameters provide, the title filter
\* read as a literal text.
Satisfies(r, p) ==
  /\ Truthy(p.app) => r.app = p.app
  /\ Truthy(p.type) => r.type = p.type
  /\ Truthy(p.status) => r.status = p.status
  /\ Truthy(p.title) => ContainsText(r.title, p.title)

\* The row satisfies them, the title filter read as the store reads it: % and
\* _ in it are wildcards.
SatisfiesAsPattern(r, p) ==
  /\ Truthy(p.app) => r.app = p.app
  /\ Truthy(p.type) => r.type = p.type
  /\ Truthy(p.status) => r.status = p.status
  /\ Truthy(p.title) => ILike(r.title, "%" \o p.title \o "%")

C21_AsClaimed ==
  (req.op = "LIST" /\ resp.code = 200) =>
    \A i \in 1..Len(resp.body.data) : Satisfies(RowOf(feedback, resp.body.data[i].id), req.params)

(***************************************************************************)
(* C21, what the handler does: the rows returned are rows of the table     *)
(* that satisfy the app, type and status filters exactly and whose title   *)
(* matches the pattern %text%, in which a % or _ of the text is a          *)
(* wildcard; they are distinct, newest first, as many as the matching rows *)
(* from position offset on up to limit, and the matching rows left out     *)
(* before the first returned one are not older than it.                    *)
(***************************************************************************)
C21_ListFiltersAsPattern ==
  (req.op = "LIST" /\ resp.code = 200) =>
    LET d      == resp.body.data
        match  == {r \in feedback : SatisfiesAsPattern(r, req.params)}
        limit  == resp.body.pagination.limit
        offset == resp.body.pagination.offset
        rest   == IF Cardinality(match) > offset THEN Cardinality(match) - offset ELSE 0
        got    == {d[i].id : i \in 1..Len(d)}
    IN  /\ \A i \in 1..Len(d) : \E r \in match : r.id = d[i].id
        /\ \A i, j \in 1..Len(d) : i < j => d[i].id # d[j].id /\ d[i].created_at >= d[j].created_at
        /\ Len(d) = Min(limit, rest)
        /\ Len(d) > 0 =>
             /\ Cardinality({r \in match : r.id \notin got /\ r.created_at > d[1].created_at})
                  <= offset
             /\ Cardinality({r \in match : r.id \notin got /\ r.created_at >= d[1].created_at})
                  >= offset

\* Two records of different titles; a listing filtered by a title text that
\* only one of them holds, in the other letter case, returns that one.
C21_Witness ==
  /\ Ran("LIST")
  /\ resp.code = 200
  /\ req.params.title = "T"
  /\ req.params.app = "demo"
  /\ Cardinality(feedback) = 2
  /\ \E r \in feedback : r.title = "ab"
  /\ Len(resp.body.data) = 1
  /\ resp.body.data[1].title = "t"

(***************************************************************************)
(* C22.  In a successful GET /support, pagination.hasMore differs from     *)
(* the truth (there are rows that satisfy the filters beyond position      *)
(* offset + limit) only when the number of rows returned equals limit and  *)
(* no such row is left, which for a limit above zero means the matching    *)
(* rows end exactly at offset + limit; whenever hasMore is false, no row   *)
(* is left.                                                                *)
(***************************************************************************)
\* The rows of the table that satisfy the filters of the request.
Matching == {r \in feedback : Satisfies(r, req.params)}

MoreInTruth ==
  Cardinality(Matching) > resp.body.pagination.offset + resp.body.pagination.limit

C22_HasMoreApproximation ==
  (req.op = "LIST" /\ resp.code = 200) =>
    LET pg == resp.body.pagination
    IN  /\ pg.hasMore # MoreInTruth =>
             /\ pg.hasMore
             /\ Len(resp.body.data) = pg.limit
             /\ pg.limit > 0 => Cardinality(Matching) = pg.offset + pg.limit
        /\ ~pg.hasMore => ~MoreInTruth

\* The last page is full: two matching records, offset 1, limit 1; hasMore
\* says there is more and there is none.
C22_Witness ==
  /\ Ran("LIST")
  /\ resp.code = 200
  /\ req.params.limit = "1" /\ req.params.offset = "1"
  /\ Cardinality(Matching) = 2
  /\ Cardinality(feedback) = 3
  /\ Len(resp.body.data) = 1
  /\ resp.body.pagination.hasMore
  /\ ~MoreInTruth

(***************************************************************************)
(* C23.  The record a POST /support makes has as its id the ticketNumber   *)
(* of the body when the body gives one, and otherwise a ticket code made   *)
(* of a prefix, the base-36 digits of the time and the random characters,  *)
(* in this order, the prefix being "BUG-" for the type "bug" (the type of  *)
(* a body that names none), "SUG-" for "suggestion" and "SUP-" for every   *)
(* other type; and the response carries this id.                           *)
(***************************************************************************)
PrefixOfSpec(type) ==
  CASE type \in {UNDEFINED, "", "bug"} -> "BUG-"
    [] type = "suggestion" -> "SUG-"
    [] OTHER -> "SUP-"

TookEffect(i) == \E k \in 1..Len(req.order) : req.order[k] = i

\* A PATCH and a DELETE served at once have both answered, the record having
\* existed when they arrived and the status of the PATCH being a valid one.
PatchAndDeleteDone ==
  /\ req.op = "CONCURRENT"
  /\ ~Pending
  /\ req.procs[1].op = "PATCH" /\ req.procs[2].op = "DELETE"
  /\ Exists(before, req.id)
  /\ req.procs[1].body.status \in StatusSetOfSpec \cup {UNDEFINED}

C24_AsClaimed ==
  PatchAndDeleteDone =>
    /\ resp[1].code \in {200, 404}
    /\ resp[1].code = 200 => TookEffect(1)

(***************************************************************************)
(* C24, what the handler does: the PATCH responds 200 when its UPDATE ran  *)
(* before the deletion, 404 when its check ran after it, and 500 with the  *)
(* message of reading a row that is not there when the deletion ran        *)
(* between its check and its UPDATE; it responds 200 only for a record its *)
(* UPDATE found.                                                           *)
(***************************************************************************)
C24_PatchRacingDelete ==
  PatchAndDeleteDone =>
    /\ resp[1].code \in {200, 404, 500}
    /\ resp[1].code = 200 <=> TookEffect(1)
    /\ resp[1].code = 200 => req.order = <<1, 2>>
    /\ resp[1].code = 404 => resp[1].stmts = <<"SELECT">> /\ req.order = <<2>>
    /\ resp[1].code = 500 =>
         /\ Sent1("UPDATE")
         /\ req.order = <<2>>
         /\ resp[1].body.details = NoRowError.message
    /\ resp[2].code = 200
    /\ ~Exists(feedback, req.id)

\* The deletion ran between the check and the UPDATE of the PATCH.
C24_Witness ==
  /\ PatchAndDeleteDone
  /\ resp[1].code = 500
  /\ resp[2].code = 200
  /\ req.procs[1].body.title = "T"

(***************************************************************************)
(* C25, as claimed: when two DELETE requests for one existing record are   *)
(* served at once, in whatever order their statements run, exactly one     *)
(* responds 200 and the other 404, and a DELETE responds 200 only if its   *)
(* own DELETE statement removed the record.                                *)
(***************************************************************************)
TwoDeletesDone ==
  /\ req.op = "CONCURRENT"
  /\ ~Pending
  /\ req.procs[1].op = "DELETE" /\ req.procs[2].op = "DELETE"
  /\ Exists(before, req.id)

C25_AsClaimed ==
  TwoDeletesDone =>
    /\ {resp[1].code, resp[2].code} = {200, 404}
    /\ \A i \in 1..2 : resp[i].code = 200 => TookEffect(i)

(***************************************************************************)
(* C25, what the handler does: each DELETE responds 200 when its check     *)
(* found the record and 404 when it did not; the record is removed by one  *)
(* DELETE statement, and both respond 200 when both checks ran before it.  *)
(***************************************************************************)
C25_DeletesRacing ==
  TwoDeletesDone =>
    /\ \A i \in 1..2 : resp[i].code \in {200, 404}
    /\ \E i \in 1..2 : resp[i].code = 200
    /\ Len(req.order) = 1
    /\ \A i \in 1..2 : TookEffect(i) => resp[i].code = 200
    /\ \A i \in 1..2 : resp[i].code = 404 <=> resp[i].stmts = <<"SELECT">>
    /\ ~Exists(feedback, req.id)
    /\ \A r \in before : r.id # req.id => r \in feedback

\* Both checks ran before either DELETE statement: both respond 200.
C25_Witness ==
  /\ TwoDeletesDone
  /\ resp[1].code = 200 /\ resp[2].code = 200
  /\ req.order = <<2>>
  /\ Cardinality(before) = 2

(***************************************************************************)
(* C26.  A DELETE /support/{id} that responds 200 removes the record and   *)
(* leaves every other record as it was.  From then on the id names no      *)
(* record until a POST that responds 200 makes one with this id: no other  *)
(* request brings a record into the table; and while an id names no        *)
(* record, GET, PATCH and DELETE on it respond 404 (the store answering)   *)
(* and GET /support lists no row with it.                                  *)
(***************************************************************************)
C26_GoneWhileAbsent ==
  /\ (req.op = "DELETE" /\ resp.code = 200) =>
       /\ Exists(before, req.id)
       /\ ~Exists(feedback, req.id)
       /\ feedback = before \ {RowOf(before, req.id)}
  /\ (req.op \in {"GET", "PATCH", "DELETE"} /\ req.fault = 0 /\ ~Exists(before, req.id)) =>
       resp.code = 404 /\ feedback = before
  /\ (req.op = "LIST" /\ resp.code = 200) =>
       \A i \in 1..Len(resp.body.data) : Exists(before, resp.body.data[i].id)

C26_OnlyPostBringsBack ==
  \A id \in {"T-1", "T-2"} :
    (~Exists(feedback, id) /\ Exists(feedback', id)) =>
      (req'.op = "POST" /\ resp'.code = 200 /\ resp'.body.id = id)

C26_DeletePermanent == [](C26_GoneWhileAbsent) /\ [][C26_OnlyPostBringsBack]_vars

\* A DELETE has removed one of two records, some time after one of them was
\* changed.
C26_Witness ==
  /\ Ran("DELETE")
  /\ resp.code = 200
  /\ Cardinality(before) = 2
  /\ Cardinality(feedback) = 1
  /\ \E r \in before : r.id = req.id /\ r.title = "T" /\ r.modified_at > r.created_at

(***************************************************************************)
(* C27, as claimed: POST /support/report-bug sends nothing to the CRM when *)
(* the API key is missing (500) or title, description or location is       *)
(* missing (400); it attaches files only after the item was created        *)
(* without errors, one by one; and once the item is created it responds    *)
(* 200 with one entry per submitted file, in order, whether the uploads    *)
(* fail or not, every file being attempted.                                *)
(***************************************************************************)
\* The requests for attaching a file among those sent to the CRM.
Attachments == SelectSeq(resp.stmts, LAMBDA c : c = "add_file_to_column")

FormComplete(form) ==
  /\ ~form.unreadable
  /\ form.title \notin {UNDEFINED, ""}
  /\ form.description \notin {UNDEFINED, ""}
  /\ form.location \notin {UNDEFINED, ""}

\* What holds of every report, however the uploads fail.
ReportBugOrder ==
  /\ ~req.hasKey => resp.code = 500 /\ resp.stmts = <<>>
  /\ (req.hasKey /\ ~req.form.unreadable /\ ~FormComplete(req.form)) =>
       resp.code = 400 /\ resp.stmts = <<>>
  /\ Attachments # <<>> =>
       /\ req.hasKey /\ FormComplete(req.form) /\ req.created = "ok"
       /\ resp.stmts = <<"create_item">> \o Attachments
       /\ Len(Attachments) <= Len(req.form.files)
  /\ resp.code = 200 =>
       /\ Len(resp.body.fileUploads) = Len(req.form.files)
       /\ Len(Attachments) = Len(req.form.files)
       /\ \A i \in 1..Len(req.form.files) :
            /\ resp.body.fileUploads[i].name = req.form.files[i]
            /\ resp.body.fileUploads[i].success = (req.answers[i] = "ok")

C27_AsClaimed ==
  req.op = "REPORT_BUG" =>
    /\ ReportBugOrder
    /\ (req.hasKey /\ FormComplete(req.form) /\ req.created = "ok") =>
         resp.code = 200 /\ Len(Attachments) = Len(req.form.files)

(***************************************************************************)
(* C27, what the handler does: as claimed when each upload the CRM fails   *)
(* is answered by it (a response that is not ok, or one with errors); when *)
(* the request for a file throws, the handler responds 500 "Failed to      *)
(* submit bug report" and the later files are not attempted.               *)
(***************************************************************************)
C27_ReportBugUploads ==
  req.op = "REPORT_BUG" =>
    /\ ReportBugOrder
    /\ (req.hasKey /\ FormComplete(req.form) /\ req.created = "ok") =>
         IF \E i \in 1..Len(req.answers) : req.answers[i] = "throws"
         THEN /\ resp.code = 500
              /\ resp.body.error = "Failed to submit bug report"
              /\ Len(Attachments) = FirstThrow(req.answers)
         ELSE resp.code = 200 /\ Len(Attachments) = Len(req.form.files)

\* Three files, the second refused by the CRM: 200, three entries, the third
\* attached.
C27_Witness ==
  /\ req.op = "REPORT_BUG"
  /\ resp.code = 200
  /\ Len(req.form.files) = 3
  /\ req.answers = <<"ok", "refused", "ok">>
  /\ ~resp.body.fileUploads[2].success
  /\ resp.body.fileUploads[3].success

(***************************************************************************)
(* C28, as claimed: the locale of the feedback component is the first of   *)
(* the URL parameter "locale", the stored preference, the browser language *)
(* and the default language that names a supported language.               *)
(***************************************************************************)
SupportedOfSpec == {"en", "es"}

\* The language of a browser language tag.
LanguageOfTag(tag) ==
  CASE tag \in {"en-US", "en"} -> "en"
    [] tag \in {"es-MX", "es"} -> "es"
    [] tag = "fr-FR" -> "fr"
    [] OTHER -> UNDEFINED

ResolvedAsSpec(env) ==
  IF env.window /\ env.url \in SupportedOfSpec THEN env.url
  ELSE IF env.window /\ env.stored \in SupportedOfSpec THEN env.stored
  ELSE IF env.window /\ LanguageOfTag(env.browser) \in SupportedOfSpec
  THEN LanguageOfTag(env.browser)
  ELSE env.default

\* The hook has the locale it settles on: its effect has run, or it renders
\* where no effect runs.
LocaleSettled ==
  req.op = "USE_LOCALE" /\ ~resp.body.thrown /\ (req.effect \/ ~req.env.window)

C28_LocaleFromIntl ==
  /\ req.op = "USE_LOCALE" =>
       IF resp.body.thrown THEN req.env.intl = NoIntlContext
       ELSE resp.body.locale = IF req.effect THEN req.env.intl ELSE req.env.default
  /\ req.op = "GET_LANGUAGE" =>
       resp.body.locale =
         ResolvedAsSpec([req.env EXCEPT !.url = UNDEFINED])

\* The URL asks for Spanish, next-intl says French: the hook settles on French.
C28_Witness ==
  /\ LocaleSettled
  /\ req.effect
  /\ req.env.url = "es" /\ req.env.intl = "fr" /\ req.env.default = "en"
  /\ resp.body.locale = "fr"

(***************************************************************************)
(* C29.  A POST /support that responds 400 or 500 leaves the table as it   *)
(* was; one that responds 400 has uploaded no file and sent no INSERT; and *)
(* a POST that changes the table adds one record and responds 200.         *)
(***************************************************************************)
C29_PostErrorLeavesTable ==
  req.op = "POST" =>
    /\ resp.code \in {200, 400, 500}
    /\ resp.code \in {400, 500} => feedback = before
    /\ resp.code = 400 => resp.puts = 0 /\ ~Sent("INSERT")
    /\ feedback # before =>
         /\ resp.code = 200
         /\ before \subseteq feedback
         /\ Cardinality(feedback \ before) = 1

\* A POST with a file, for an id that a record made earlier has: the file is
\* uploaded, the INSERT raises, 500.
C29_Witness ==
  /\ Ran("POST")
  /\ resp.code = 500
  /\ resp.puts = 1
  /\ Sent("INSERT")
  /\ Exists(before, req.body.ticketNumber)
  /\ RowOf(before, req.body.ticketNumber).created_at < now
  /\ Cardinality(before) = 2

\* A POST with a file and without a description: 400, nothing uploaded.
C29_WitnessRefused ==
  /\ Ran("POST")
  /\ resp.code = 400
  /\ req.body.files.some /\ Len(req.body.files.v) = 2
  /\ req.body.description = UNDEFINED
  /\ Cardinality(before) = 1

(***************************************************************************)
(* C30, as claimed: the translation function returns a string; for a key   *)
(* whose path under the component does not lead to a string it returns the *)
(* key; for a string and params it returns the string with every {name}    *)
(* whose name is a key of params replaced by the value and every other     *)
(* {name} as it stands; and getTranslations of an unsupported locale       *)
(* returns the translations of the default language.                       *)
(***************************************************************************)
\* The property k that the object value has of its own.
Own(value, k) ==
  IF value.t = "object" /\ k \in DOMAIN value.o THEN value.o[k] ELSE JsUndefined

RECURSIVE OwnPath(_, _, _)
OwnPath(value, keys, i) ==
  IF i > Len(keys) THEN value ELSE OwnPath(Own(value, keys[i]), keys, i + 1)

\* The translations of the locale, those of the default language when the
\* locale is not a supported one.
TranslationsOfSpec(locale, default) ==
  IF locale \in SupportedOfSpec THEN Own(TranslationsMap, locale)
  ELSE Own(TranslationsMap, default)

\* The pieces with each {name} that is a key of params replaced by its value.
FilledIn(pieces, params) ==
  [i \in 1..Len(pieces) |->
     IF pieces[i].brace /\ pieces[i].text \in DOMAIN params.o
     THEN Lit(JsToString(params.o[pieces[i].text]))
     ELSE pieces[i]]

\* What the key stands for in the translations.
Meant == OwnPath(Own(TranslationsOfSpec(req.locale, req.default), req.component),
                 KeySegments(req.key), 1)

C30_AsClaimed ==
  /\ req.op = "TRANSLATE" =>
       /\ resp.body.value \in STRING
       /\ resp.body.value =
            IF Meant.t # "string" THEN req.key
            ELSE IF req.params.t = "object" THEN TextOf(FilledIn(Meant.pieces, req.params))
            ELSE TextOf(Meant.pieces)
  /\ (req.op = "GET_TRANSLATIONS" /\ req.locale \notin SupportedOfSpec) =>
       resp.body.translations = Own(TranslationsMap, req.default)

(***************************************************************************)
(* C30, what the code does: as claimed for locales and placeholder names   *)
(* that are not names of properties every object inherits, and for         *)
(* placeholder names made of letters, digits and underscores.  A {name}    *)
(* whose name has another character is left as it stands though params    *)
(* has the key; a {name} that names an inherited property is replaced by   *)
(* the text of that property though params has no such key; and for a      *)
(* locale that names an inherited property getTranslations returns that    *)
(* property, under which every key translates to itself.                   *)
(***************************************************************************)
\* The pieces as the code fills them in.
FilledInByCode(pieces, params) ==
  [i \in 1..Len(pieces) |->
     IF ~pieces[i].brace \/ ~IsWord(pieces[i].text) THEN pieces[i]
     ELSE IF pieces[i].text \in DOMAIN params.o
     THEN Lit(JsToString(params.o[pieces[i].text]))
     ELSE IF pieces[i].text \in ObjectPrototype
     THEN Lit("function " \o pieces[i].text \o "() { [native code] }")
     ELSE pieces[i]]

C30_TranslateWordParams ==
  /\ req.op = "TRANSLATE" =>
       /\ resp.body.value \in STRING
       /\ resp.body.value =
            IF req.locale \in ObjectPrototype \/ Meant.t # "string" THEN req.key
            ELSE IF req.params.t = "object"
            THEN TextOf(FilledInByCode(Meant.pieces, req.params))
            ELSE TextOf(Meant.pieces)
  /\ (req.op = "GET_TRANSLATIONS" /\ req.locale \notin SupportedOfSpec) =>
       resp.body.translations =
         IF req.locale \in ObjectPrototype THEN JsFunction(req.locale)
         ELSE Own(TranslationsMap, req.default)

\* A French reader of a Spanish site is greeted in Spanish, the name and the
\* count filled in, a count of zero included, and {who} left as it stands.
C30_Witness ==
  /\ req.op = "TRANSLATE"
  /\ req.locale = "fr" /\ req.default = "es"
  /\ req.key = "greeting"
  /\ req.params.t = "object" /\ DOMAIN req.params.o = {"name", "count"}
  /\ resp.body.value = "Hola Ann, 0 {who}"

====
